---------------------------- MODULE MCWriteGates ----------------------------
(* Two Tower replicas and two items: different ones of either gate, or the   *)
(* same one twice.  Every call of the adapters occurs.                      *)
EXTENDS WriteGates, TLC

CONSTANTS a, b, d1, d2

Post(action, payload) == [provider |-> "gitlab", action |-> action, payload |-> payload]
Plain(provider, action, payload) ==
    [provider |-> provider, action |-> action, payload |-> payload]
Upload(provider, fileId, payload) ==
    [provider |-> provider, action |-> "drive_upload", fileId |-> fileId, payload |-> payload]

MCOrder(forA, forB) == (a :> forA) @@ (b :> forB)
MCOrders ==
    {MCOrder(Upload("google", FALSE, "A"), Plain("google", "create_calendar_event", "B")),
     MCOrder(Post("create_merge_request", "A"), Post("comment_issue", "B"))}
      \cup {MCOrder(o, o) : o \in {Plain("google", "send_email", "A"),
                                  Plain("microsoft", "send_email", "A"),
                                  Plain("microsoft", "create_calendar_event", "A"),
                                  Upload("microsoft", FALSE, "A"),
                                  Upload("google", TRUE, "A"),
                                  Post("create_issue", "A")}}
=============================================================================
