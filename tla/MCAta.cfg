SPECIFICATION Spec
CONSTANTS
    Machines <- MCMachines
    Words = 2
    LbaLimit = 2
    Asked = {0, 3}
    Values = {"v"}
    MaxWrites = 2
INVARIANTS DisksAreTheDrives ReadIsTheSector WriteIsTheSector
PROPERTIES AlwaysAnswers
