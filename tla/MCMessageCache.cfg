CONSTANTS
    c1 = c1
    c2 = c2
    c3 = c3
    m1 = m1
    m3 = m3
    NoGuid = NoGuid
    Chats <- MCChats
    Msgs <- MCMsgs
    ChatsOf <- MCChatsOf
    Created <- MCCreated
    FromMe = {}
    MaxId = 6
    StableId <- MCStableId
    ServerUnread = {0, 1}
    LegacyId <- MCLegacyId
    LegacyChats <- MCLegacyChats
    LegacyMsgs <- MCLegacyMsgs
    LegacyChatOf <- MCLegacyChatOf
    LegacyNamed <- MCLegacyNamed
SPECIFICATION FairSpec
INVARIANTS
    TypeOK
    IdsInAgreement
    OneRowPerGuid
    FiledUnderItsChat
    NoOrphanWhenServing
PROPERTY LedgerSpec
PROPERTY IdsStayValid
PROPERTY OperationsEnd
