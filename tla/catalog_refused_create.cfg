CONSTANTS
    Accounts = {"A"}
    Files = {"F", "G"}
    Keys = {1, 2}
    Times = {1}
    Asked <- MCAsked
    Busy = {"F"}
    Absent = Absent
    None = None
SPECIFICATION Spec

PROPERTY RefusalWritesNothing
VIEW View
