----------------------------- MODULE FifoServer -----------------------------
(* What the queue of a conversation promises to its users, without tasks,
   flags or trees: messages are served one at a time, in the order in which
   they were sent, each at most once, and whoever waits is served or dropped.
   A message is dropped when it is cancelled, when the message it answers
   fails, or when its branch is cleared.                                    *)
CONSTANTS Job, None

VARIABLES waiting,  \* for each job to serve, those submitted before it and still to serve
          serving,  \* the job being served, or None
          gone      \* jobs served or dropped

vars == <<waiting, serving, gone>>

Fresh(j) == j \notin gone \union DOMAIN waiting \union {serving}

\* The line without the jobs of S.
Without(S) == [j \in DOMAIN waiting \ S |-> waiting[j] \ S]

\* The job being served ends here, if there is one, along with those of S.
Leave(S) == gone' = gone \union S \union ({serving} \ {None})

Submit(j) == /\ Fresh(j)
             /\ waiting' = [i \in DOMAIN waiting \union {j} |->
                              IF i = j THEN DOMAIN waiting ELSE waiting[i]]
             /\ UNCHANGED <<serving, gone>>

\* With nobody waiting and nobody served, the job is served at once.
Serve(j) == /\ Fresh(j)
            /\ serving = None
            /\ DOMAIN waiting = {}
            /\ serving' = j
            /\ UNCHANGED <<waiting, gone>>

\* The next job is the one with nobody before it.
ServeNext(j) == /\ j \in DOMAIN waiting
                /\ waiting[j] = {}
                /\ serving' = j
                /\ waiting' = Without({j})
                /\ Leave({})

\* Some of those waiting are dropped, and the job being served may end.
Drop(S) == /\ waiting' = Without(S)
           /\ \/ serving' = serving /\ gone' = gone \union (S \intersect DOMAIN waiting)
              \/ serving' = None /\ Leave(S \intersect DOMAIN waiting)

Init == /\ waiting = [j \in {} |-> {}]
        /\ serving \in Job
        /\ gone = {}

Next == \/ \E j \in Job : Submit(j) \/ Serve(j) \/ ServeNext(j)
        \/ \E S \in SUBSET Job : Drop(S)

\* Service ends, and waiting ends.
Progress == \A j \in Job : /\ serving = j ~> serving # j
                           /\ j \in DOMAIN waiting ~> j \notin DOMAIN waiting

SafeSpec == Init /\ [][Next]_vars
Spec == SafeSpec /\ Progress
=============================================================================
