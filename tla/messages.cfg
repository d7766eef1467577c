SPECIFICATION Spec
CONSTANTS
    x = x
    y = y
    nx = nx
    ny = ny
    nz = nz
    Chats <- TwoChats
    Names <- ThreeNames
    FirstName <- MCFirstName
    Limit = 1
    MaxEvents = 3
INVARIANTS
    TypeOK
    NoMessageLost
    EchoOnlyWhenOvertaken
SYMMETRY ChatSymmetry
CONSTRAINT FewEvents
