SPECIFICATION Spec
CONSTANTS
    Clients = {"web", "shop", "phone"}
    Threads = {"t1", "t2"}
    Emails = {"ann", "bob"}
    Phones = {"555"}
    Keys = {"k1", "k2", "k3", "k4"}
    Posted <- MCPosted
    MaxTroubles = 2
INVARIANTS
    ContactsKeepConsent
    AnswersAreReceipts
PROPERTY
    ClientsAnswered
CHECK_DEADLOCK FALSE
