SPECIFICATION FairSpec
CONSTANTS
    Effect = {e1, e2, e3, e4}
    MaxBreaks = 3
    ChatMsgs = 3
    MaxDrops = 1
    Poll = {p1, p2}
    MaxMsgs = 2
    MaxPosts = 2
    None = None
    Item = {i1, i2}
    Start = {s1, s2}
    Monitor = {m1, m2}
    Rec = {r1, r2, r3}
    MaxReplies = 2
CHECK_DEADLOCK FALSE
INVARIANT TypeOK
INVARIANT OneConnection
PROPERTY KeepsLink
PROPERTY Reconnects
INVARIANT NotifiedOnce
INVARIANT UnreadRight
INVARIANT InOrder
PROPERTY Delivered
PROPERTY ConfirmedStays
PROPERTY WaitEnds
INVARIANT ListRight
INVARIANT MicReachable
INVARIANT MonitorReleased
INVARIANT OneRecogniser
INVARIANT RoomSilent
PROPERTY ListensAgain
