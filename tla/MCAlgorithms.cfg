SPECIFICATION Spec
CONSTANTS
    MinimumReadSize = 2
    FileSize = 4
    Size = 312
    Lfanew = {64, 300, 312}
    Directories = {0, 2, 3, 16, 17}
    Sections = {0, 1, 2, 97}
    HeaderSize = {0, 112}
    Section <- Headers
    Address = {0, 1, 2, 3, 4, 5}
    AccessMask <- Masks
    FileByte = {0, 1, 3, 63, 127, 128, 255}
    MaxBytes = 5
    Char <- Chars
    MaxUnits = 5
    ActionName = {"list_dir", "get_file_info"}
    NoAction = "none"
    MaxEntries = 3
    Id = {1, 2, 3}
    NoSession = 0
    Remote = {"r1", "r2"}
    Action <- Actions
    Capacity = 1
    MaxActions = 3
    Client <- Clients
    Worker <- WorkerNames
    Service <- Services
    Text <- Texts
INVARIANTS
    MappedIsRead AddressesAreRight RightsAreTold ContentIsKept LowBytesAreTold
    ActionsAreFound AnswersTellTheCache AnswersGoBack
    NamesAreMatched PathsAreSplit VersionIsTold ConfigurationIsTaken
CHECK_DEADLOCK FALSE
