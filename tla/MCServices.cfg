SPECIFICATION Spec
CONSTANTS
    None = None
    Actors = {a1, a2}
    Accounts = {u1}
    Anonymous = Anonymous
    Ids = {r1}
    MaxTracked = 0
    MaxConns = 3
    MaxArrivals = 4
    MaxTokens = 3
    MaxNews = 1
    NewsTexts = {x}
    Texts = {x, y}
    List = List
    Highlights = Highlights
    MaxRows = 3
    MaxPage = 2
    All = All
    MaxImages = 2
    MaxTold = 3
    Limits = {1, 2}
    Profiles = {Blank, Google, own}
    Blank = Blank
    Google = Google
INVARIANTS TypeOK RepliesGoHome AskerIsAnswered CookieHasSession RefusedHasCause ListsHaveCause
    ImagesMatchRows ShownIsRead MapsAgree EntriesHaveCause
PROPERTIES CookieBySigningIn MarksOwnPage
SYMMETRY Symmetry
CHECK_DEADLOCK FALSE
