SPECIFICATION FairSpec
CONSTANTS
    a = a  b = b  c = c  w1 = w1  w2 = w2
    Workers = {w1, w2}
    Files = {1, 2}
    Keys = {a, b, c}
    FileOf <- TwoFiles
    Durable = {2}
    ChangeSets <- AcrossFiles
    MaxSets = 3
    MaxWrites = 1
    Plans <- FaultPlans
  
PROPERTIES Finishes
CHECK_DEADLOCK FALSE
