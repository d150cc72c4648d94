CONSTANTS
    Order <- MCOrder
    Dirs = {"D"}
    Dead = {"F.DEAD"}
    First = {"D", "F", "F.DEAD"}
    MaxWrites = 1
    MaxGen = 2
    None = None
SPECIFICATION ArchiveSpec
INVARIANTS OneMoment RefusedChangesNothing 
PROPERTY ExportComesToAnEnd
