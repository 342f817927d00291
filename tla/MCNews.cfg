SPECIFICATION FairSpec
CONSTANTS
    Feeds <- MCFeeds
    Article <- MCArticle
    FeedOf <- MCFeedOf
    PollS <- MCPollS
    Raisers = {"first", "second"}
    Window = 1
    MaxSeen = 2
    Kept = 1
    MaxEdits = 2
    MaxRestarts = 1
INVARIANTS
    TypeOK
    PublishedOnce
PROPERTIES
    ArticlesReach
CHECK_DEADLOCK FALSE
