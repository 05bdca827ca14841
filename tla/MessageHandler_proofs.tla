------------------------ MODULE MessageHandler_proofs ------------------------
(* For every set of messages and voice notes and every number of commands and
   restarts, with the store in a file: a reply is refused only when what it
   answers was cleared, an answer can be replied to now and after the next
   start, what was cleared stays gone, nobody waits for a task that is not there,
   and a finished answer that was written stays finished.                   *)
EXTENDS MessageHandler, SequenceTheorems, FiniteSetTheorems, TLAPS

-----------------------------------------------------------------------------
(* The inductive invariant. *)

\* A node that is in a tree the repository knows.
Known(m) == m \in inTree /\ home[m] \in trees

\* The repository: a node has been accepted, with the tree of its root; the map
\* from ids to trees names the tree of the node or nothing.
Mapped ==
    \A m \in Message :
        /\ home[m] # None => pc[m] = "done" /\ home[home[m]] = home[m]
        /\ m \in inTree => home[m] # None /\ state[m] # "absent"
        /\ where[m] # None => where[m] = home[m]
        /\ Known(m) => where[m] = home[m]

\* What a message answers is there, or has been cleared while it was handled.
Answers ==
    \A m \in Message :
        /\ pc[m] = "none" => target[m] = None
        /\ pc[m] = "sending" /\ target[m] # None =>
             target[m] \in Message /\ (target[m] \in cleared \/ Known(target[m]))
        /\ pc[m] = "refused" => target[m] \in cleared

\* A message that was accepted, and neither cleared nor lost, is found, also by
\* its status message.
Remembered ==
    \A m \in Message : pc[m] = "done" /\ m \notin cleared /\ m \notin lost =>
        Known(m) /\ where[Status(m)] = home[m]

\* What was cleared is no longer handled; a cancelled voice note never will be.
Withdrawn ==
    \A m \in Message :
        /\ m \in pending => pc[m] \in {"transcribing", "dropped"}
        /\ m \in cleared => pc[m] \notin {"none", "sending"} /\ m \notin pending

ChatInv == Mapped /\ Answers /\ Remembered /\ Withdrawn

\* The store: a node is in the tree it was added to, and is found there.
Filed ==
    \A m \in Message :
        /\ store.where[m] # None => store.where[m] = home[m]
        /\ \A r \in Message :
             store.trees[r][m] # "absent" => home[m] = r /\ store.where[m] = r

\* It has every node that was neither cleared nor lost, and finds its status message.
Stored ==
    \A m \in Message : home[m] # None /\ m \notin cleared /\ m \notin lost =>
        store.where[Status(m)] = home[m] /\ store.trees[home[m]][m] # "absent"

\* What was cleared, and has not come back, is in no tree, in memory and in the store.
Erased ==
    \A m \in cleared \ revived : home[m] \notin Ghosts =>
        ~Known(m) /\ \A r \in Message : store.trees[r][m] = "absent"

\* The store has no tree that was dropped.
Unsaved ==
    /\ \A n \in escaped \union overtaken : home[n] # None
    /\ \A r \in Message : r \notin trees /\ r \notin Ghosts =>
         \A m \in Message : store.trees[r][m] = "absent"

\* The store has a node as COMPLETED as soon as it is.
CompletedIsStored ==
    \A m \in inTree : home[m] \in trees /\ state[m] = "completed" =>
        store.trees[home[m]][m] = "completed"

StoreInv == Filed /\ Stored /\ Erased /\ Unsaved /\ CompletedIsStored

\* A queue holds nodes of its tree, once, that have no task yet.
Queued ==
    \A r \in Message :
        /\ \A i \in DOMAIN proc[r].queue :
             LET m == proc[r].queue[i]
             IN  home[m] = r /\ task[m] = "none" /\ told[m] = FALSE
        /\ \A i, j \in DOMAIN proc[r].queue : proc[r].queue[i] = proc[r].queue[j] => i = j

\* A task belongs to a node; it runs with its tree, and does not end while the
\* node is active, unless the CLI has told nothing.
Working ==
    \A m \in Message :
        /\ task[m] # "none" \/ told[m] = TRUE => home[m] # None
        /\ task[m] = "scheduled" => told[m] = FALSE
        /\ task[m] \in {"running", "cancelling"} /\ Known(m) => sees[m] = TRUE
        /\ task[m] = "cleanup" /\ Known(m) /\ told[m] = TRUE => state[m] \notin Active

\* A task that would save a tree that was dropped is cancelled.
Orphans ==
    \A n \in Message :
        home[n] \notin trees \union Ghosts /\ task[n] = "running" /\ sees[n] = TRUE =>
            cancelReq[n] = TRUE

TaskInv == Queued /\ Working /\ Orphans /\ ActiveIsServed

HandlerInv == TypeOK /\ ChatInv /\ StoreInv /\ TaskInv

\* The file: what it has is in the tree it was added to, and is found there, also
\* by its status message.
OnDisk ==
    \A m \in Message :
        /\ disk.where[m] # None => disk.where[m] = home[m]
        /\ \A r \in Message :
             disk.trees[r][m] # "absent" => home[m] = r /\ disk.where[m] = r
        /\ Has(disk, m) /\ m \notin cleared => disk.where[Status(m)] = home[m]

\* What a start did not find is nowhere.
Away ==
    \A m \in lost : home[m] # None /\ m \notin inTree /\ ~Has(store, m) /\ ~Has(disk, m)

\* A node is COMPLETED by a task that the CLI told its session, and then ends.
Settled ==
    \A m \in Message :
        /\ state[m] = "completed" => told[m] = TRUE /\ task[m] \notin {"running", "cancelling"}
        /\ \A r \in Message : "completed" \in {store.trees[r][m], disk.trees[r][m]} =>
             told[m] = TRUE

\* What was COMPLETED when the file was written is so wherever it is.
Survives ==
    \A m \in finished :
        /\ told[m] = TRUE
        /\ m \in inTree => state[m] = "completed"
        /\ \A r \in Message :
             {store.trees[r][m], disk.trees[r][m]} \subseteq {"absent", "completed"}

FileInv == OnDisk /\ Away /\ Settled /\ Survives

\* The store of the theorems.
FileStore == Backend = "file"

-----------------------------------------------------------------------------
(* Ids, trees and queues. *)

\* A status message is no message of a user, and belongs to one message.
LEMMA IdFacts ==
    /\ \A m \in Message : m \in Ids /\ Status(m) \in Ids /\ Status(m) \notin Message
    /\ \A m, k \in Message : Status(m) = Status(k) => m = k
    /\ None \notin Message
BY StatusIsNoMessage, VoiceNotesAreMessages DEF Ids, Status

\* resolve_parent_node_id finds a node of a tree that is known.
LEMMA Found ==
    ASSUME TypeOK, NEW id \in Ids, Resolve(id) # None
    PROVE  /\ Resolve(id) \in inTree /\ Resolve(id) \in Message
           /\ TreeFor(id) \in trees
           /\ home[Resolve(id)] = TreeFor(id) /\ Known(Resolve(id))
<1> DEFINE own == {m \in inTree : home[m] = TreeFor(id) /\ id \in {m, Status(m)}}
<1>1. own # {} /\ TreeFor(id) # None /\ Resolve(id) = CHOOSE m \in own : TRUE
  BY DEF Resolve
<1>2. Resolve(id) \in own
  BY <1>1
<1>3. TreeFor(id) \in trees
  BY <1>1 DEF TreeFor
<1> QED
  BY <1>2, <1>3 DEF TypeOK, Known

\* A known node is found by its own id and by that of its status message.
LEMMA FindsNode ==
    ASSUME TypeOK, NEW m \in Message, Known(m), NEW id \in {m, Status(m)},
           where[id] = home[m]
    PROVE  Resolve(id) = m
<1> DEFINE own == {k \in inTree : home[k] = TreeFor(id) /\ id \in {k, Status(k)}}
<1>1. TreeFor(id) = home[m] /\ home[m] # None
  BY IdFacts DEF TreeFor, Known, TypeOK
<1>2. own = {m}
  BY <1>1, IdFacts DEF Known, TypeOK
<1>3. (CHOOSE k \in own : TRUE) = m
  BY <1>2
<1> QED
  BY <1>1, <1>2, <1>3 DEF Resolve

\* A tree's nodes, and what is below a node.
LEMMA NodesOfTree ==
    /\ \A r : Nodes(r) = {m \in inTree : home[m] = r}
    /\ \A n : Descendants(n) \subseteq {m \in inTree : home[m] = home[n]}
BY DEF Nodes, Descendants

\* The members of the queue k come from different places of the queue q.
TakenFrom(k, q) ==
    \E f \in [DOMAIN k -> DOMAIN q] :
        /\ \A i \in DOMAIN k : k[i] = q[f[i]]
        /\ \A i, j \in DOMAIN k : f[i] = f[j] => i = j

LEMMA TakenFromItself ==
    ASSUME NEW q
    PROVE  TakenFrom(q, q)
<1> DEFINE f == [i \in DOMAIN q |-> i]
<1>1. f \in [DOMAIN q -> DOMAIN q]
  OBVIOUS
<1> QED
  BY <1>1 DEF TakenFrom

\* What remove_if_present leaves in the queue: its other members, in their order.
LEMMA KeptQueue ==
    ASSUME NEW q \in Seq(Message), NEW S, NEW f \in Kept(q, S),
           NEW k, k = [i \in DOMAIN f |-> q[f[i]]]
    PROVE  /\ k \in Seq(Message)
           /\ TakenFrom(k, q)
           /\ \A m \in Range(q) \ S : m \in Range(k)
<1> DEFINE stay == {i \in DOMAIN q : q[i] \notin S}
<1>1. IsFiniteSet(DOMAIN q)
  BY FS_Interval, LenProperties
<1>2. Cardinality(stay) \in Nat
  BY <1>1, FS_Subset, FS_CardinalityType
<1>3. /\ f \in [1 .. Cardinality(stay) -> stay] /\ Range(f) = stay
      /\ \A i, j \in DOMAIN f : i < j => f[i] < f[j]
  BY DEF Kept
<1>4. \A i \in DOMAIN f : f[i] \in DOMAIN q /\ q[f[i]] \in Message
  BY <1>3
<1>5. k \in Seq(Message)
  BY <1>2, <1>3, <1>4, IsASeq
<1>6. DOMAIN q \subseteq Int /\ DOMAIN f \subseteq Int
  BY <1>2, <1>3
<1>7. ASSUME NEW i \in DOMAIN f, NEW j \in DOMAIN f, f[i] = f[j]
      PROVE  i = j
  <2>1. i \in Int /\ j \in Int /\ f[i] \in Int
    BY <1>4, <1>6
  <2>2. ~(i < j) /\ ~(j < i)
    BY <1>3, <1>7, <2>1
  <2> QED
    BY <2>1, <2>2
<1>8. ASSUME NEW m \in Range(q) \ S PROVE m \in Range(k)
  <2>1. PICK x \in stay : q[x] = m
    BY DEF Range
  <2>2. PICK i \in DOMAIN f : f[i] = x
    BY <1>3 DEF Range
  <2> QED
    BY <2>1, <2>2 DEF Range
<1>9. TakenFrom(k, q)
  <2>1. DOMAIN k = DOMAIN f /\ f \in [DOMAIN k -> DOMAIN q]
    BY <1>3, <1>4
  <2> QED
    BY <2>1, <1>7 DEF TakenFrom
<1> QED
  BY <1>5, <1>8, <1>9

-----------------------------------------------------------------------------
(* The store. *)

\* The queue of a tree, and the store, as records.
Procs == [queue : Seq(Message), busy : BOOLEAN,
          current : Message \union {None}, last : Message \union {None}]
Stores == [trees : [Message -> [Message -> States]],
           where : [Ids -> Message \union {None}]]

\* to_dict has a state for every node.
LEMMA DictType ==
    ASSUME NEW r, NEW st \in [Message -> States], NEW ns
    PROVE  /\ ToDict(r, st, ns) \in [Message -> States]
           /\ \A m \in Message :
                ToDict(r, st, ns)[m] = IF m \in ns /\ home[m] = r THEN st[m] ELSE "absent"
BY DEF ToDict, States

\* save_tree changes one tree, and the place of its nodes.
LEMMA SaveEffect ==
    ASSUME FileStore, NEW s \in Stores, NEW r \in Message, NEW dict \in [Message -> States]
    PROVE  LET z == Save(s, r, dict)
           IN  /\ z \in Stores
               /\ \A k \in Message : z.trees[k] = IF k = r THEN dict ELSE s.trees[k]
               /\ \A m \in Message : z.where[m] = IF dict[m] # "absent" THEN r ELSE s.where[m]
               /\ \A m \in Message : z.where[Status(m)] = s.where[Status(m)]
<1> DEFINE T == [s.trees EXCEPT ![r] = dict]
           W == [id \in Ids |-> IF id \in {m \in Message : dict[m] # "absent"} THEN r ELSE s.where[id]]
<1>1. Save(s, r, dict) = [trees |-> T, where |-> W]
  BY DEF Save, FileStore
<1>2. T \in [Message -> [Message -> States]] /\ \A k \in Message : T[k] = IF k = r THEN dict ELSE s.trees[k]
  BY DEF Stores
<1>3. /\ W \in [Ids -> Message \union {None}]
      /\ \A m \in Message : W[m] = IF dict[m] # "absent" THEN r ELSE s.where[m]
      /\ \A m \in Message : W[Status(m)] = s.where[Status(m)]
  BY IdFacts DEF Stores
<1> HIDE DEF T, W
<1> QED
  BY <1>1, <1>2, <1>3 DEF Stores

\* The same for several trees at once: z is s with the trees R saved.
SavedAs(z, s, R, st, ns) ==
    /\ z \in Stores
    /\ \A k, m \in Message :
         z.trees[k][m] = IF k \notin R THEN s.trees[k][m]
                         ELSE IF m \in ns /\ home[m] = k THEN st[m] ELSE "absent"
    /\ \A m \in Message :
         z.where[m] = IF m \in ns /\ home[m] \in R /\ st[m] # "absent"
                      THEN home[m] ELSE s.where[m]
    /\ \A m \in Message : z.where[Status(m)] = s.where[Status(m)]

LEMMA SaveAllEffect ==
    ASSUME FileStore, NEW s \in Stores, TypeOK, NEW R \in SUBSET Message,
           NEW st \in [Message -> States], NEW ns \in SUBSET Message,
           NEW z, z = SaveAll(s, R, st, ns)
    PROVE  SavedAs(z, s, R, st, ns)
<1> DEFINE T == [r \in Message |-> IF r \in R THEN ToDict(r, st, ns) ELSE s.trees[r]]
           In == {m \in ns : home[m] \in R /\ st[m] # "absent"}
           W == [id \in Ids |-> IF id \in In THEN home[id] ELSE s.where[id]]
<1>1. z = [trees |-> T, where |-> W]
  BY DEF SaveAll, FileStore
<1>2. T \in [Message -> [Message -> States]]
  BY DictType DEF Stores
<1>3. \A k, m \in Message :
        T[k][m] = IF k \notin R THEN s.trees[k][m]
                  ELSE IF m \in ns /\ home[m] = k THEN st[m] ELSE "absent"
  <2>1. \A k \in Message : T[k] = IF k \in R THEN ToDict(k, st, ns) ELSE s.trees[k]
    OBVIOUS
  <2> QED
    BY <2>1, DictType
<1>4. In \subseteq Message /\ \A m \in In : home[m] \in Message
  OBVIOUS
<1>5. /\ W \in [Ids -> Message \union {None}]
      /\ \A m \in Message : W[m] = IF m \in In THEN home[m] ELSE s.where[m]
      /\ \A m \in Message : W[Status(m)] = s.where[Status(m)]
  BY <1>4, IdFacts DEF Stores
<1> HIDE DEF T, W
<1> QED
  BY <1>1, <1>2, <1>3, <1>5 DEF Stores, SavedAs

\* A step that saves the trees R as they are after it, and may take away the
\* mappings of nodes of these trees.
Wrote(R) ==
    /\ store' \in Stores
    /\ \A r, m \in Message :
         store'.trees[r][m] = IF r \notin R THEN store.trees[r][m]
                              ELSE IF m \in inTree' /\ home[m] = r THEN state'[m] ELSE "absent"
    /\ \A m \in Message :
         /\ m \in inTree' /\ home[m] \in R /\ state'[m] # "absent" => store'.where[m] = home[m]
         /\ home[m] \notin R => store'.where[m] = store.where[m]
         /\ store'.where[m] \in {store.where[m], home[m], None}
         /\ store'.where[Status(m)] = store.where[Status(m)]

\* A step that leaves the store alone.
LEMMA WroteNothing ==
    ASSUME TypeOK, store' = store
    PROVE  Wrote({})
BY DEF Wrote, TypeOK, Stores

\* A step that saves a tree, or some trees, with the states it sets.
LEMMA WroteTree ==
    ASSUME FileStore, TypeOK, NEW r \in Message, state' \in [Message -> States], inTree' = inTree,
           store' = Save(store, r, ToDict(r, state', inTree))
    PROVE  Wrote({r})
<1> DEFINE dict == ToDict(r, state', inTree)
<1>1. /\ dict \in [Message -> States]
      /\ \A m \in Message : dict[m] = IF m \in inTree /\ home[m] = r THEN state'[m] ELSE "absent"
  BY DictType
<1>2. store \in Stores /\ store' = Save(store, r, dict)
  BY DEF TypeOK, Stores
<1> HIDE DEF dict
<1> QED
  BY <1>1, <1>2, SaveEffect DEF Wrote

LEMMA WroteTrees ==
    ASSUME FileStore, TypeOK, NEW R \in SUBSET Message, state' \in [Message -> States],
           inTree' = inTree, store' = SaveAll(store, R, state', inTree)
    PROVE  Wrote(R)
<1>1. store \in Stores /\ inTree \in SUBSET Message
  BY DEF TypeOK, Stores
<1>2. SavedAs(store', store, R, state', inTree)
  BY <1>1, SaveAllEffect
<1> QED
  BY <1>2 DEF Wrote, SavedAs

\* A step puts into the trees of the store what the nodes are after it, or takes
\* nodes out of them.
StoreMoves ==
    \A r, m \in Message :
        \/ store'.trees[r][m] \in {store.trees[r][m], "absent"}
        \/ m \in inTree' /\ store'.trees[r][m] = state'[m]

LEMMA WroteMoves ==
    ASSUME NEW R, Wrote(R)
    PROVE  StoreMoves
BY DEF Wrote, StoreMoves

LEMMA StoreStays ==
    ASSUME store' = store
    PROVE  StoreMoves
BY DEF StoreMoves

\* A step that saves trees that are known, or already known to come back, and
\* clears only nodes it has removed from them.
LEMMA WrittenWell ==
    ASSUME StoreInv, ChatInv, TypeOK, NEW R \in SUBSET Message, Wrote(R),
           R \subseteq trees \union Ghosts,
           UNCHANGED <<home, trees, overtaken, escaped, lost>>,
           inTree' \subseteq inTree, cleared \subseteq cleared', cleared' \subseteq Message,
           revived' \subseteq revived,
           \A m \in inTree \ inTree' : home[m] \in R /\ m \in cleared',
           \A m \in (cleared' \ revived') \ (cleared \ revived) :
              m \notin inTree' /\ home[m] \in R \union {None},
           \A m \in inTree' : state'[m] # "absent",
           \A m \in inTree' : state'[m] = "completed" => state[m] = "completed" \/ home[m] \in R
    PROVE  StoreInv'
<1>1. Ghosts' = Ghosts
  BY DEF Ghosts
<1>2. Filed'
  <2>1. ASSUME NEW m \in Message, store'.where[m] # None PROVE store'.where[m] = home[m]
    BY <2>1 DEF Wrote, StoreInv, Filed
  <2>2. ASSUME NEW m \in Message, NEW r \in Message, store'.trees[r][m] # "absent"
        PROVE  home[m] = r /\ store'.where[m] = r
    <3>1. CASE r \in R
      BY <2>2, <3>1 DEF Wrote
    <3>2. CASE r \notin R
      <4>1. home[m] = r /\ store.where[m] = r
        BY <2>2, <3>2 DEF Wrote, StoreInv, Filed
      <4> QED
        BY <3>2, <4>1 DEF Wrote
    <3> QED
      BY <3>1, <3>2
  <2> QED
    BY <2>1, <2>2 DEF Filed
<1>3. Stored'
  <2> SUFFICES ASSUME NEW m \in Message, home[m] # None, m \notin cleared', m \notin lost
               PROVE  store'.where[Status(m)] = home[m] /\ store'.trees[home[m]][m] # "absent"
    BY DEF Stored
  <2>1. /\ store.where[Status(m)] = home[m] /\ store.trees[home[m]][m] # "absent"
        /\ home[m] \in Message /\ m \notin cleared
    BY DEF StoreInv, Stored, TypeOK
  <2>2. m \in inTree
    BY <2>1 DEF ChatInv, Mapped, Remembered, Known
  <2>3. m \in inTree' /\ state'[m] # "absent"
    BY <2>2
  <2> QED
    BY <2>1, <2>3 DEF Wrote
<1>4. Erased'
  <2> SUFFICES ASSUME NEW m \in cleared' \ revived', home[m] \notin Ghosts
               PROVE  ~Known(m)' /\ \A r \in Message : store'.trees[r][m] = "absent"
    BY <1>1 DEF Erased
  <2>m. m \in Message
    OBVIOUS
  <2>1. CASE m \in cleared \ revived
    <3>1. ~Known(m) /\ \A r \in Message : store.trees[r][m] = "absent"
      BY <2>1 DEF StoreInv, Erased
    <3>2. ~Known(m)'
      BY <3>1 DEF Known
    <3>3. ASSUME NEW r \in Message PROVE store'.trees[r][m] = "absent"
      <4>1. CASE r \in R /\ m \in inTree' /\ home[m] = r
        BY <3>1, <4>1 DEF Known
      <4> QED
        BY <2>m, <3>1, <4>1 DEF Wrote
    <3> QED
      BY <3>2, <3>3
  <2>2. CASE m \notin cleared \ revived
    <3>1. m \notin inTree' /\ home[m] \in R \union {None}
      BY <2>2
    <3>2. ASSUME NEW r \in Message PROVE store'.trees[r][m] = "absent"
      <4>1. CASE r \in R
        BY <2>m, <3>1, <4>1 DEF Wrote
      <4>2. CASE r \notin R
        <5>1. store'.trees[r][m] = store.trees[r][m] /\ home[m] # r
          BY <2>m, <3>1, <4>2, IdFacts DEF Wrote
        <5> QED
          BY <2>m, <5>1 DEF StoreInv, Filed
      <4> QED
        BY <4>1, <4>2
    <3> QED
      BY <3>1, <3>2 DEF Known
  <2> QED
    BY <2>1, <2>2
<1>5. Unsaved'
  BY <1>1 DEF StoreInv, Unsaved, Wrote
<1>6. CompletedIsStored'
  <2> SUFFICES ASSUME NEW m \in inTree', home[m] \in trees, state'[m] = "completed"
               PROVE  store'.trees[home[m]][m] = "completed"
    BY DEF CompletedIsStored
  <2>1. m \in Message /\ home[m] \in Message /\ m \in inTree
    BY DEF TypeOK
  <2>2. CASE home[m] \in R
    BY <2>1, <2>2 DEF Wrote
  <2>3. CASE home[m] \notin R
    BY <2>1, <2>3 DEF Wrote, StoreInv, CompletedIsStored
  <2> QED
    BY <2>2, <2>3
<1> QED
  BY <1>2, <1>3, <1>4, <1>5, <1>6 DEF StoreInv

-----------------------------------------------------------------------------
(* The handling of a message, up to its node. *)

\* A step that leaves everything but the handling alone.
LEMMA HandlingKeeps ==
    ASSUME HandlerInv, KeepsTrees
    PROVE  StoreInv' /\ TaskInv'
<1>1. UNCHANGED <<trees, where, home, parent, inTree, state, proc, told, task, cancelReq, sees,
                  store, cleared, overtaken, escaped, lost, revived>>
  BY DEF KeepsTrees, repositoryVars, taskVars, historyVars, fileVars
<1>2. Ghosts' = Ghosts /\ \A m : Known(m)' = Known(m)
  BY <1>1 DEF Ghosts, Known
<1>3. StoreInv'
  BY <1>1, <1>2 DEF HandlerInv, StoreInv, Filed, Stored, Erased, Unsaved, CompletedIsStored
<1>4. TaskInv'
  BY <1>1, <1>2 DEF HandlerInv, TaskInv, Queued, Working, Orphans, ActiveIsServed
<1> QED
  BY <1>3, <1>4

HandlingOf(m) ==
    \/ Receive(m) \/ ReceiveVoice(m) \/ Transcribed(m) \/ NotTranscribed(m) \/ SendFails(m)
    \/ ParentGone(m)

\* How far the message m gets, and what t it may answer.
Reached == {"transcribing", "sending", "refused", "dropped"}
HandledTo(m, to, t) ==
    /\ pc[m] \in {"none", "transcribing", "sending"}
    /\ pc' = [pc EXCEPT ![m] = to] /\ target' = [target EXCEPT ![m] = t]
    /\ pending' \subseteq pending \union {m}
    /\ m \in pending' \/ pending' \subseteq pending
    /\ m \in pending' => to \in {"transcribing", "dropped"}
    /\ m \in pending' /\ m \notin pending => pc[m] = "none"
    /\ to = "sending" => /\ pc[m] = "none" \/ m \in pending
                         /\ t # None => t \in Message /\ Known(t)
    /\ to = "refused" => t \in cleared

LEMMA HandlingShape ==
    ASSUME HandlerInv, NEW m \in Message, HandlingOf(m)
    PROVE  /\ KeepsTrees
           /\ \E to \in Reached, t \in Ids \union {None} : HandledTo(m, to, t)
<1>1. /\ target[m] \in Ids \union {None}
      /\ target' = target => target' = [target EXCEPT ![m] = target[m]]
      /\ pending \subseteq Message
      /\ m \in pending => pc[m] \in {"transcribing", "dropped"}
      /\ pc[m] = "none" => target[m] = None
  BY VoiceNotesAreMessages DEF HandlerInv, TypeOK, ChatInv, Withdrawn, Answers
<1>t. TypeOK /\ (\A id \in Ids : Resolve(id) # None => Resolve(id) \in Message /\ Known(Resolve(id)))
      /\ \A id \in Ids : Resolve(id) \in Ids \union {None}
  BY Found, IdFacts DEF HandlerInv
<1>2. CASE Receive(m)
  <2>1. KeepsTrees /\ pc[m] = "none" /\ pc' = [pc EXCEPT ![m] = "sending"] /\ pending' = pending
    BY <1>2 DEF Receive, Handling
  <2>2. CASE target' = target
    BY <2>1, <2>2, <1>1 DEF HandledTo, Reached
  <2>3. CASE \E id \in Answerable : target' = [target EXCEPT ![m] = Resolve(id)]
    <3>1. PICK id \in Ids : target' = [target EXCEPT ![m] = Resolve(id)]
      BY <2>3 DEF Answerable, Ids
    <3> QED
      BY <2>1, <3>1, <1>1, <1>t DEF HandledTo, Reached
  <2> QED
    BY <1>2, <2>2, <2>3 DEF Receive
<1>3. CASE ReceiveVoice(m)
  <2>1. KeepsTrees /\ pc[m] = "none" /\ pc' = [pc EXCEPT ![m] = "transcribing"]
        /\ pending' = pending \union {m}
    BY <1>3 DEF ReceiveVoice, Handling, RegisterPending
  <2>2. \E id \in Ids \union {None} : target' = [target EXCEPT ![m] = id]
    <3>1. CASE target' = target
      BY <3>1, <1>1
    <3>2. CASE \E id \in Answerable : target' = [target EXCEPT ![m] = id]
      BY <3>2 DEF Answerable, Ids
    <3> QED
      BY <1>3, <3>1, <3>2 DEF ReceiveVoice
  <2> QED
    BY <2>1, <2>2 DEF HandledTo, Reached
<1>4. CASE Transcribed(m)
  <2>1. KeepsTrees /\ pc[m] = "transcribing" /\ pc' = [pc EXCEPT ![m] = "sending"]
        /\ pending' = pending \ {m} /\ m \in pending
        /\ target' = [target EXCEPT ![m] = IF target[m] = None THEN None ELSE Resolve(target[m])]
    BY <1>4 DEF Transcribed, Handling, StillPending
  <2>2. PICK t \in Ids \union {None} : /\ target' = [target EXCEPT ![m] = t]
                                       /\ t # None => t \in Message /\ Known(t)
    <3>1. CASE target[m] = None
      BY <2>1, <3>1
    <3>2. CASE target[m] # None
      BY <2>1, <3>2, <1>1, <1>t
    <3> QED
      BY <3>1, <3>2
  <2>3. /\ pending' \subseteq pending /\ m \notin pending' /\ m \in pending
        /\ pc[m] = "transcribing" /\ pc' = [pc EXCEPT ![m] = "sending"]
    BY <2>1
  <2>4. HandledTo(m, "sending", t)
    BY <2>2, <2>3 DEF HandledTo
  <2> QED
    BY <2>1, <2>4 DEF Reached
<1>5. CASE NotTranscribed(m) \/ SendFails(m)
  <2>1. KeepsTrees /\ pc[m] \in {"transcribing", "sending"} /\ pc' = [pc EXCEPT ![m] = "dropped"]
        /\ pending' = pending /\ target' = [target EXCEPT ![m] = None]
    BY <1>5 DEF NotTranscribed, SendFails, Handling
  <2>2. HandledTo(m, "dropped", None)
    BY <2>1, <1>1 DEF HandledTo
  <2> QED
    BY <2>1, <2>2 DEF Reached
<1>6. CASE ParentGone(m)
  <2>1. KeepsTrees /\ pc[m] = "sending" /\ pc' = [pc EXCEPT ![m] = "refused"]
        /\ pending' = pending /\ target' = target /\ target[m] # None /\ ~ParentThere(target[m])
    BY <1>6 DEF ParentGone, Handling
  <2>2. target[m] \in Message /\ (target[m] \in cleared \/ Known(target[m]))
    BY <2>1 DEF HandlerInv, ChatInv, Answers
  <2>3. ~Known(target[m])
    <3> SUFFICES ASSUME Known(target[m]) PROVE ParentThere(target[m])
      BY <2>1
    <3>1. where[target[m]] = home[target[m]] /\ home[target[m]] # None
      BY <2>2 DEF HandlerInv, ChatInv, Mapped, Known
    <3> QED
      BY <3>1, NodesOfTree DEF ParentThere, TreeFor, Known
  <2>4. target' = [target EXCEPT ![m] = target[m]] /\ target[m] \in cleared
    BY <2>1, <2>2, <2>3, <1>1
  <2>5. HandledTo(m, "refused", target[m])
    BY <2>1, <2>4, <1>1 DEF HandledTo
  <2> QED
    BY <2>1, <2>5, <1>1 DEF Reached
<1> QED
  BY <1>2, <1>3, <1>4, <1>5, <1>6 DEF HandlingOf

LEMMA HandlingOK ==
    ASSUME HandlerInv, NEW m \in Message, HandlingOf(m)
    PROVE  HandlerInv' /\ StoreMoves
<1>1. StoreInv' /\ TaskInv'
  BY HandlingShape, HandlingKeeps
<1>m. PICK to \in Reached, t \in Ids \union {None} : HandledTo(m, to, t)
  BY HandlingShape
<1>2. /\ to \in Reached /\ t \in Ids \union {None}
      /\ pc[m] \in {"none", "transcribing", "sending"}
      /\ pc' = [pc EXCEPT ![m] = to] /\ target' = [target EXCEPT ![m] = t]
      /\ pending' \subseteq pending \union {m}
      /\ m \in pending' \/ pending' \subseteq pending
      /\ m \in pending' => to \in {"transcribing", "dropped"}
      /\ m \in pending' /\ m \notin pending => pc[m] = "none"
      /\ to = "sending" => /\ pc[m] = "none" \/ m \in pending
                           /\ t # None => t \in Message /\ Known(t)
      /\ to = "refused" => t \in cleared
  BY <1>m DEF HandledTo
<1>3. UNCHANGED <<trees, where, home, parent, inTree, state, proc, told, task, cancelReq, sees,
                  store, command, cleared, overtaken, escaped, up, interruptions, disk, finished,
                  lost, revived>>
  BY HandlingShape DEF KeepsTrees, repositoryVars, taskVars, historyVars, countVars, fileVars
<1>4. /\ pc'[m] = to /\ target'[m] = t
      /\ \A k \in Message : k # m => pc'[k] = pc[k] /\ target'[k] = target[k]
                                     /\ (k \in pending' => k \in pending)
  BY <1>2 DEF HandlerInv, TypeOK
<1>5. TypeOK'
  <2>1. pc' \in [Message -> {"none", "transcribing", "sending", "done", "refused", "dropped"}]
        /\ target' \in [Message -> Ids \union {None}]
    BY <1>2 DEF HandlerInv, TypeOK, Reached
  <2>2. pending' \subseteq Voice
    <3>1. HandlingOf(m) => pending' \subseteq Voice
      BY DEF HandlerInv, TypeOK, HandlingOf, Receive, ReceiveVoice, Transcribed, NotTranscribed,
             SendFails, ParentGone, RegisterPending, VoiceMessage
    <3> QED
      BY <3>1
  <2> QED
    BY <1>3, <2>1, <2>2 DEF HandlerInv, TypeOK
<1>6. Mapped'
  BY <1>2, <1>3, <1>4 DEF HandlerInv, ChatInv, Mapped, Known, Reached
<1>7. Answers'
  BY <1>2, <1>3, <1>4 DEF HandlerInv, ChatInv, Answers, Known, Reached
<1>8. Remembered'
  BY <1>2, <1>3, <1>4 DEF HandlerInv, ChatInv, Remembered, Known, Reached
<1>9. Withdrawn'
  BY <1>2, <1>3, <1>4 DEF HandlerInv, ChatInv, Withdrawn, Reached
<1>w. StoreMoves
  BY <1>3, StoreStays
<1> QED
  BY <1>w, <1>1, <1>5, <1>6, <1>7, <1>8, <1>9 DEF HandlerInv, ChatInv

-----------------------------------------------------------------------------
(* A message becomes a node. *)

\* The message m is taken into the tree r: it was in no tree, queue or history.
NewNode(m, r) ==
    /\ m \in Message /\ r \in Message
    /\ r = m \/ (r \in trees /\ home[r] = r)
    /\ pc[m] = "sending" /\ home[m] = None /\ m \notin inTree /\ m \notin cleared
    /\ m \notin pending /\ task[m] = "none" /\ told[m] = FALSE
    /\ \A k \in Message : home[k] # m
    /\ Handling(m, "sending", "done")
    /\ \E p \in Message \union {None} : AddNode(m, r, p)
    /\ UNCHANGED <<target, pending, told, cancelReq, sees, command, historyVars, countVars,
                   fileVars>>

LEMMA AcceptShape ==
    ASSUME HandlerInv, NEW m \in Message, NewConversation(m) \/ Continue(m)
    PROVE  \E r \in Message : NewNode(m, r) /\ Saves(m, r) /\ Enqueue(m, r)
<1>1. /\ pc[m] = "sending" => /\ home[m] = None /\ m \notin inTree /\ m \notin cleared
                              /\ m \notin pending /\ task[m] = "none" /\ told[m] = FALSE
      /\ m # None
  <2>1. pc[m] = "sending" => home[m] = None /\ m \notin inTree
    BY DEF HandlerInv, ChatInv, Mapped
  <2>2. pc[m] = "sending" => m \notin cleared /\ m \notin pending
    BY DEF HandlerInv, ChatInv, Withdrawn
  <2>3. home[m] = None => task[m] = "none" /\ told[m] = FALSE
    BY DEF HandlerInv, TaskInv, Working, TypeOK
  <2> QED
    BY <2>1, <2>2, <2>3, IdFacts
<1>2. pc[m] = "sending" => \A k \in Message : home[k] # m
  BY <1>1 DEF HandlerInv, ChatInv, Mapped
<1>3. CASE NewConversation(m)
  <2>1. Accept(m, m, None)
    BY <1>3 DEF NewConversation
  <2>2. NewNode(m, m)
    BY <1>1, <1>2, <2>1 DEF Accept, NewNode, Handling
  <2> QED
    BY <2>1, <2>2 DEF Accept
<1>4. CASE Continue(m)
  <2> DEFINE p == target[m]
             r == TreeFor(p)
  <2>1. p # None /\ r # None /\ p \in Nodes(r) /\ Accept(m, r, p)
    BY <1>4 DEF Continue, ParentThere
  <2>2. r \in trees /\ p \in inTree /\ home[p] = r
    BY <2>1, NodesOfTree DEF TreeFor
  <2>3. p \in Message /\ r \in Message /\ home[r] = r
    BY <2>1, <2>2 DEF HandlerInv, TypeOK, ChatInv, Mapped
  <2> HIDE DEF r, p
  <2>4. NewNode(m, r)
    BY <1>1, <1>2, <2>1, <2>2, <2>3 DEF Accept, NewNode, Handling
  <2> QED
    BY <2>1, <2>3, <2>4 DEF Accept
<1> QED
  BY <1>3, <1>4

\* What the new node changes for the others: nothing.
LEMMA NewNodeFacts ==
    ASSUME HandlerInv, NEW m, NEW r, NewNode(m, r)
    PROVE  /\ home'[m] = r /\ where'[m] = r /\ where'[Status(m)] = r /\ pc'[m] = "done"
           /\ state'[m] = "pending" /\ m \in inTree' /\ r \in trees' /\ Known(m)'
           /\ \A k \in Message \ {m} :
                /\ home'[k] = home[k] /\ where'[k] = where[k] /\ where'[Status(k)] = where[Status(k)]
                /\ pc'[k] = pc[k] /\ state'[k] = state[k] /\ Known(k)' = Known(k)
                /\ k \in inTree' <=> k \in inTree
           /\ \A k \in Message : k # r => (k \in trees' <=> k \in trees)
           /\ Ghosts' = Ghosts
<1>1. PICK p \in Message \union {None} : AddNode(m, r, p)
  BY DEF NewNode
<1>2. /\ trees' = trees \union {r}
      /\ where' = [where EXCEPT ![m] = r, ![Status(m)] = r]
      /\ home' = [home EXCEPT ![m] = r]
      /\ inTree' = inTree \union {m}
      /\ state' = [state EXCEPT ![m] = "pending"]
      /\ pc' = [pc EXCEPT ![m] = "done"]
      /\ UNCHANGED <<overtaken, escaped>>
  BY <1>1 DEF AddNode, NewNode, Handling, historyVars
<1>3. /\ m \in Message /\ home \in [Message -> Message \union {None}]
      /\ where \in [Ids -> Message \union {None}] /\ state \in [Message -> States]
      /\ pc \in [Message -> {"none", "transcribing", "sending", "done", "refused", "dropped"}]
  BY DEF HandlerInv, TypeOK, NewNode
<1>4. /\ home'[m] = r /\ where'[m] = r /\ where'[Status(m)] = r /\ pc'[m] = "done"
      /\ state'[m] = "pending"
  BY <1>2, <1>3, IdFacts
<1>5. ASSUME NEW k \in Message \ {m}
      PROVE  /\ home'[k] = home[k] /\ where'[k] = where[k] /\ where'[Status(k)] = where[Status(k)]
             /\ pc'[k] = pc[k] /\ state'[k] = state[k]
  BY <1>2, <1>3, IdFacts
<1>6. ASSUME NEW k \in Message \ {m} PROVE Known(k)' = Known(k)
  <2>1. home[k] = r => r \in trees
    BY DEF NewNode
  <2> QED
    BY <1>2, <1>5, <2>1 DEF Known
<1>7. Ghosts' = Ghosts
  <2>1. \A n \in escaped \union overtaken : n \in Message /\ n # m
    BY DEF HandlerInv, StoreInv, Unsaved, TypeOK, NewNode
  <2> QED
    BY <1>2, <1>5, <2>1 DEF Ghosts
<1>8. m \in inTree' /\ r \in trees' /\ \A k \in Message \ {m} : k \in inTree' <=> k \in inTree
  BY <1>2
<1>9. \A k \in Message : k # r => (k \in trees' <=> k \in trees)
  BY <1>2
<1>10. Known(m)'
  BY <1>4, <1>8 DEF Known
<1> QED
  BY <1>4, <1>5, <1>6, <1>7, <1>8, <1>9, <1>10

\* save_tree after register_node: the tree with its new node.
LEMMA SavesNode ==
    ASSUME FileStore, HandlerInv, NEW m, NEW r, NewNode(m, r), Saves(m, r)
    PROVE  /\ store' \in Stores
           /\ store'.trees[r][m] = "pending" /\ store'.where[m] = r /\ store'.where[Status(m)] = r
           /\ \A k, q \in Message : q # r => store'.trees[q][k] = store.trees[q][k]
           /\ \A k \in Message \ {m} :
                /\ store'.trees[r][k] = IF k \in inTree /\ home[k] = r THEN state[k] ELSE "absent"
                /\ store'.where[k] = IF k \in inTree /\ home[k] = r /\ state[k] # "absent"
                                     THEN r ELSE store.where[k]
                /\ store'.where[Status(k)] = store.where[Status(k)]
<1> DEFINE s == RegisterBoth(store, m, r)
           dict == [ToDict(r, state, inTree) EXCEPT ![m] = "pending"]
<1>1. store \in Stores /\ state \in [Message -> States] /\ m \in Message /\ r \in Message
  BY DEF HandlerInv, TypeOK, Stores, NewNode
<1>2. s.trees = store.trees /\ s.where = [store.where EXCEPT ![m] = r, ![Status(m)] = r]
  BY <1>1 DEF RegisterBoth, Stores
<1>3. /\ s \in Stores /\ s.trees = store.trees
      /\ s.where[m] = r /\ s.where[Status(m)] = r
      /\ \A k \in Message \ {m} : s.where[k] = store.where[k]
                                  /\ s.where[Status(k)] = store.where[Status(k)]
  <2> DEFINE w == [store.where EXCEPT ![m] = r, ![Status(m)] = r]
  <2>1. w \in [Ids -> Message \union {None}]
    BY <1>1, IdFacts DEF Stores
  <2>2. s = [store EXCEPT !.where = w]
    BY DEF RegisterBoth
  <2>3. /\ w[m] = r /\ w[Status(m)] = r
        /\ \A k \in Message \ {m} : w[k] = store.where[k] /\ w[Status(k)] = store.where[Status(k)]
    BY <1>1, IdFacts DEF Stores
  <2>4. s.trees = store.trees /\ s.where = w
    BY <1>2
  <2> HIDE DEF w
  <2>5. s \in Stores
    BY <1>1, <2>1, <2>2 DEF Stores
  <2> QED
    BY <2>3, <2>4, <2>5
<1>4. /\ dict \in [Message -> States] /\ dict[m] = "pending"
      /\ \A k \in Message \ {m} :
           dict[k] = IF k \in inTree /\ home[k] = r THEN state[k] ELSE "absent"
  <2>1. ToDict(r, state, inTree) \in [Message -> States]
    BY <1>1, DictType
  <2> QED
    BY <1>1, <2>1, DictType DEF States, Active
<1>5. store' = Save(s, r, dict)
  BY DEF Saves
<1> HIDE DEF s, dict
<1> QED
  BY <1>1, <1>3, <1>4, <1>5, SaveEffect

LEMMA NewNodeChat ==
    ASSUME HandlerInv, NEW m, NEW r, NewNode(m, r)
    PROVE  ChatInv'
<1>1. UNCHANGED <<target, pending, cleared, lost>> /\ m \in Message /\ r \in Message
      /\ m \notin cleared /\ m \notin pending /\ pc[m] = "sending"
  BY DEF NewNode, historyVars, fileVars
<1>2. /\ home'[m] = r /\ where'[m] = r /\ where'[Status(m)] = r /\ pc'[m] = "done"
      /\ state'[m] = "pending" /\ m \in inTree' /\ r \in trees' /\ Known(m)'
      /\ \A k \in Message \ {m} :
           /\ home'[k] = home[k] /\ where'[k] = where[k] /\ where'[Status(k)] = where[Status(k)]
           /\ pc'[k] = pc[k] /\ state'[k] = state[k] /\ Known(k)' = Known(k)
           /\ k \in inTree' <=> k \in inTree
  BY NewNodeFacts
<1>3. home'[r] = r /\ \A k \in Message : home[k] # m
  BY <1>2 DEF NewNode
<1>4. Mapped'
  <2>1. ASSUME NEW k \in Message \ {m}
        PROVE  /\ home'[k] # None => pc'[k] = "done" /\ home'[home'[k]] = home'[k]
               /\ k \in inTree' => home'[k] # None /\ state'[k] # "absent"
               /\ where'[k] # None => where'[k] = home'[k]
               /\ Known(k)' => where'[k] = home'[k]
    <3>1. home[k] # None => home[k] \in Message \ {m}
      BY <1>3 DEF HandlerInv, TypeOK
    <3> QED
      BY <1>2, <3>1 DEF HandlerInv, ChatInv, Mapped
  <2>2. r # None
    BY <1>1, IdFacts
  <2> QED
    BY <1>1, <1>2, <1>3, <2>1, <2>2 DEF Mapped
<1>5. Answers'
  <2>1. ASSUME NEW k \in Message, Known(k) PROVE Known(k)'
    BY <1>2, <2>1
  <2> QED
    BY <1>1, <1>2, <2>1 DEF HandlerInv, ChatInv, Answers
<1>6. Remembered'
  BY <1>1, <1>2 DEF HandlerInv, ChatInv, Remembered
<1>7. Withdrawn'
  BY <1>1, <1>2 DEF HandlerInv, ChatInv, Withdrawn
<1> QED
  BY <1>4, <1>5, <1>6, <1>7 DEF ChatInv

LEMMA NewNodeStore ==
    ASSUME FileStore, HandlerInv, NEW m, NEW r, NewNode(m, r), Saves(m, r)
    PROVE  StoreInv'
<1>1. UNCHANGED <<cleared, overtaken, escaped, lost, revived>> /\ m \in Message /\ r \in Message
      /\ m \notin cleared /\ home[m] = None /\ Ghosts' = Ghosts
      /\ m \notin escaped \union overtaken
  BY NewNodeFacts DEF NewNode, historyVars, fileVars, HandlerInv, StoreInv, Unsaved
<1>2. /\ home'[m] = r /\ state'[m] = "pending" /\ r \in trees'
      /\ \A k \in Message \ {m} :
           /\ home'[k] = home[k] /\ state'[k] = state[k] /\ Known(k)' = Known(k)
           /\ k \in inTree' <=> k \in inTree
      /\ \A k \in Message : k # r => (k \in trees' <=> k \in trees)
  BY NewNodeFacts
<1>3. /\ store'.trees[r][m] = "pending" /\ store'.where[m] = r /\ store'.where[Status(m)] = r
      /\ \A k, q \in Message : q # r => store'.trees[q][k] = store.trees[q][k]
      /\ \A k \in Message \ {m} :
           /\ store'.trees[r][k] = IF k \in inTree /\ home[k] = r THEN state[k] ELSE "absent"
           /\ store'.where[k] = IF k \in inTree /\ home[k] = r /\ state[k] # "absent"
                                THEN r ELSE store.where[k]
           /\ store'.where[Status(k)] = store.where[Status(k)]
  BY SavesNode
<1>4. Filed'
  <2>1. ASSUME NEW k \in Message \ {m}, store'.where[k] # None PROVE store'.where[k] = home'[k]
    BY <1>2, <1>3, <2>1 DEF HandlerInv, StoreInv, Filed
  <2>2. ASSUME NEW k \in Message \ {m}, NEW q \in Message, store'.trees[q][k] # "absent"
        PROVE  home'[k] = q /\ store'.where[k] = q
    <3>1. CASE q = r
      BY <1>2, <1>3, <2>2, <3>1
    <3>2. CASE q # r
      <4>1. home[k] = q /\ store.where[k] = q
        BY <1>3, <2>2, <3>2 DEF HandlerInv, StoreInv, Filed
      <4> QED
        BY <1>2, <1>3, <3>2, <4>1
    <3> QED
      BY <3>1, <3>2
  <2>3. ASSUME NEW q \in Message, store'.trees[q][m] # "absent"
        PROVE  home'[m] = q /\ store'.where[m] = q
    <3>1. q # r => store.trees[q][m] # "absent" /\ home[m] = q
      BY <1>1, <1>3, <2>3 DEF HandlerInv, StoreInv, Filed
    <3> QED
      BY <1>1, <1>2, <1>3, <3>1, IdFacts
  <2> QED
    BY <1>2, <1>3, <2>1, <2>2, <2>3 DEF Filed
<1>5. Stored'
  <2> SUFFICES ASSUME NEW k \in Message, home'[k] # None, k \notin cleared, k \notin lost
               PROVE  store'.where[Status(k)] = home'[k] /\ store'.trees[home'[k]][k] # "absent"
    BY <1>1 DEF Stored
  <2>1. CASE k = m
    BY <1>2, <1>3, <2>1
  <2>2. CASE k # m
    <3>1. /\ store.where[Status(k)] = home[k] /\ store.trees[home[k]][k] # "absent"
          /\ home[k] \in Message
      BY <1>2, <2>2 DEF HandlerInv, StoreInv, Stored, TypeOK
    <3>2. k \in inTree /\ state[k] # "absent"
      BY <3>1, IdFacts DEF HandlerInv, ChatInv, Mapped, Remembered, Known
    <3> QED
      BY <1>2, <1>3, <2>2, <3>1, <3>2
  <2> QED
    BY <2>1, <2>2
<1>6. Erased'
  <2> SUFFICES ASSUME NEW k \in cleared \ revived, home'[k] \notin Ghosts
               PROVE  ~Known(k)' /\ \A q \in Message : store'.trees[q][k] = "absent"
    BY <1>1 DEF Erased
  <2>1. k \in Message \ {m}
    BY <1>1 DEF HandlerInv, TypeOK
  <2>2. ~Known(k) /\ \A q \in Message : store.trees[q][k] = "absent"
    BY <1>2, <2>1 DEF HandlerInv, StoreInv, Erased
  <2>3. ~(k \in inTree /\ home[k] = r)
    <3>1. home[k] = r => r \in trees
      BY <2>1 DEF NewNode
    <3> QED
      BY <2>2, <3>1 DEF Known
  <2> QED
    BY <1>2, <1>3, <2>1, <2>2, <2>3
<1>7. Unsaved'
  <2>1. \A n \in escaped \union overtaken : home'[n] # None
    BY <1>1, <1>2 DEF HandlerInv, StoreInv, Unsaved, TypeOK
  <2>2. \A q \in Message : q \notin trees' /\ q \notin Ghosts =>
          \A k \in Message : store'.trees[q][k] = "absent"
    BY <1>2, <1>3 DEF HandlerInv, StoreInv, Unsaved
  <2> QED
    BY <1>1, <2>1, <2>2 DEF Unsaved
<1>8. CompletedIsStored'
  <2> SUFFICES ASSUME NEW k \in inTree', home'[k] \in trees', state'[k] = "completed"
               PROVE  store'.trees[home'[k]][k] = "completed"
    BY DEF CompletedIsStored
  <2>1. k \in Message \ {m} /\ k \in inTree
    BY <1>1, <1>2 DEF NewNode, AddNode, HandlerInv, TypeOK
  <2>2. home[k] \in Message
    BY <2>1, IdFacts DEF HandlerInv, TypeOK, ChatInv, Mapped
  <2>3. CASE home[k] = r
    BY <1>2, <1>3, <2>1, <2>3
  <2>4. CASE home[k] # r
    BY <1>2, <1>3, <2>1, <2>2, <2>4 DEF HandlerInv, StoreInv, CompletedIsStored
  <2> QED
    BY <2>3, <2>4
<1> QED
  BY <1>4, <1>5, <1>6, <1>7, <1>8 DEF StoreInv

\* enqueue_and_start: the node waits in the queue or has a task.
LEMMA NewNodeTask ==
    ASSUME HandlerInv, NEW m, NEW r, NewNode(m, r), Enqueue(m, r)
    PROVE  TaskInv' /\ proc' \in [Message -> Procs]
           /\ task' \in [Message -> Live \union {"none", "done"}]
<1> USE DEF Procs
<1>1. UNCHANGED <<told, cancelReq, sees, overtaken, escaped>> /\ m \in Message /\ r \in Message
      /\ home[m] = None /\ task[m] = "none" /\ told[m] = FALSE /\ Ghosts' = Ghosts
  BY NewNodeFacts DEF NewNode, historyVars
<1>2. /\ home'[m] = r /\ state'[m] = "pending" /\ r \in trees'
      /\ \A k \in Message \ {m} :
           /\ home'[k] = home[k] /\ state'[k] = state[k] /\ Known(k)' = Known(k)
           /\ k \in inTree' <=> k \in inTree
      /\ \A k \in Message : k # r => (k \in trees' <=> k \in trees)
  BY NewNodeFacts
<1>3. /\ proc \in [Message -> Procs] /\ task \in [Message -> Live \union {"none", "done"}]
      /\ \A k \in Message : proc[k].queue \in Seq(Message)
  BY DEF HandlerInv, TypeOK
<1>4. \A k \in Message : \A i \in DOMAIN proc[k].queue : proc[k].queue[i] \in Message \ {m}
  BY <1>1, <1>3, IdFacts DEF HandlerInv, TaskInv, Queued
<1>7. trees \subseteq trees'
  BY DEF NewNode, AddNode
<1>5. CASE proc[r].busy
  <2>1. proc' = [proc EXCEPT ![r] = [proc[r] EXCEPT !.queue = Append(proc[r].queue, m)]] /\ task' = task
    BY <1>5, <1>3 DEF Enqueue
  <2>2. /\ proc' \in [Message -> Procs]
        /\ proc'[r].queue = Append(proc[r].queue, m)
        /\ \A k \in Message : k # r => proc'[k] = proc[k]
    <3> DEFINE p == [proc[r] EXCEPT !.queue = Append(proc[r].queue, m)]
    <3>1. Append(proc[r].queue, m) \in Seq(Message) /\ proc[r] \in Procs
      BY <1>1, <1>3
    <3>2. p \in Procs /\ p.queue = Append(proc[r].queue, m)
      BY <3>1
    <3> HIDE DEF p
    <3>3. proc' = [proc EXCEPT ![r] = p]
      BY <2>1 DEF p
    <3> QED
      BY <1>1, <1>3, <3>2, <3>3
  <2>3. /\ DOMAIN proc'[r].queue = 1 .. Len(proc[r].queue) + 1
        /\ proc'[r].queue[Len(proc[r].queue) + 1] = m
        /\ \A i \in 1 .. Len(proc[r].queue) : proc'[r].queue[i] = proc[r].queue[i]
        /\ DOMAIN proc[r].queue = 1 .. Len(proc[r].queue) /\ Len(proc[r].queue) \in Nat
    BY <1>1, <1>3, <2>2
  <2>4. \A i \in DOMAIN proc'[r].queue : i \in DOMAIN proc[r].queue \/ i = Len(proc[r].queue) + 1
    BY <2>3
  <2>5. Queued'
    <3>1. ASSUME NEW k \in Message, NEW i \in DOMAIN proc'[k].queue
          PROVE  LET j == proc'[k].queue[i]
                 IN  home'[j] = k /\ task'[j] = "none" /\ told'[j] = FALSE
      <4>1. CASE k = r /\ i = Len(proc[r].queue) + 1
        BY <1>1, <1>2, <2>1, <2>3, <4>1
      <4>2. CASE i \in DOMAIN proc[k].queue /\ proc'[k].queue[i] = proc[k].queue[i]
        BY <1>1, <1>2, <1>4, <2>1, <4>2 DEF HandlerInv, TaskInv, Queued
      <4> QED
        BY <2>2, <2>3, <2>4, <4>1, <4>2
    <3>2. ASSUME NEW k \in Message, NEW i \in DOMAIN proc'[k].queue,
                 NEW j \in DOMAIN proc'[k].queue, proc'[k].queue[i] = proc'[k].queue[j]
          PROVE  i = j
      <4>1. CASE k # r
        BY <2>2, <3>2, <4>1 DEF HandlerInv, TaskInv, Queued
      <4>2. CASE k = r
        <5>1. i \in DOMAIN proc[r].queue /\ j \in DOMAIN proc[r].queue => i = j
          BY <1>1, <2>3, <3>2, <4>2 DEF HandlerInv, TaskInv, Queued
        <5>2. i \in DOMAIN proc[r].queue => proc'[k].queue[i] # m
          BY <1>1, <1>4, <2>3, <4>2
        <5>3. j \in DOMAIN proc[r].queue => proc'[k].queue[j] # m
          BY <1>1, <1>4, <2>3, <4>2
        <5> QED
          BY <2>3, <2>4, <3>2, <4>2, <5>1, <5>2, <5>3
      <4> QED
        BY <4>1, <4>2
    <3> QED
      BY <3>1, <3>2 DEF Queued
  <2>6. \A k \in Message : \A j \in Range(proc[k].queue) : j \in Range(proc'[k].queue)
    <3> SUFFICES ASSUME NEW k \in Message, NEW i \in DOMAIN proc[k].queue
                 PROVE  proc[k].queue[i] \in Range(proc'[k].queue)
      BY DEF Range
    <3>1. i \in DOMAIN proc'[k].queue /\ proc'[k].queue[i] = proc[k].queue[i]
      <4>1. CASE k = r
        BY <2>3, <4>1
      <4>2. CASE k # r
        BY <2>2, <4>2
      <4> QED
        BY <4>1, <4>2
    <3> QED
      BY <3>1 DEF Range
  <2>7. m \in Range(proc'[r].queue)
    BY <2>3 DEF Range
  <2>8. ActiveIsServed'
    <3> SUFFICES ASSUME NEW k \in inTree', home'[k] \in trees', state'[k] \in Active
                 PROVE  task'[k] \in Live \/ k \in Range(proc'[home'[k]].queue)
                        \/ (task'[k] = "done" /\ ~told'[k])
      BY DEF ActiveIsServed
    <3>1. CASE k = m
      BY <1>2, <2>7, <3>1
    <3>2. CASE k # m
      <4>1. k \in Message \ {m} /\ k \in inTree
        BY <1>2, <3>2 DEF NewNode, AddNode, HandlerInv, TypeOK
      <4>2. home[k] \in Message /\ home[k] \in trees /\ state[k] \in Active
        BY <1>2, <4>1, IdFacts DEF HandlerInv, TypeOK, ChatInv, Mapped, Known
      <4> QED
        BY <1>1, <1>2, <2>1, <2>6, <4>1, <4>2 DEF HandlerInv, TaskInv, ActiveIsServed
    <3> QED
      BY <3>1, <3>2
  <2>9. Working'
    BY <1>1, <1>2, <2>1, IdFacts DEF HandlerInv, TaskInv, Working, Active
  <2>10. Orphans'
    BY <1>1, <1>2, <1>7, <2>1 DEF HandlerInv, TaskInv, Orphans
  <2> QED
    BY <1>3, <2>1, <2>2, <2>5, <2>8, <2>9, <2>10 DEF TaskInv
<1>6. CASE ~proc[r].busy
  <2>1. proc' = [proc EXCEPT ![r] = [proc[r] EXCEPT !.busy = TRUE, !.current = m, !.last = m]]
        /\ task' = [task EXCEPT ![m] = "scheduled"]
    BY <1>6, <1>3 DEF Enqueue
  <2>2. proc' \in [Message -> Procs] /\ \A k \in Message : proc'[k].queue = proc[k].queue
    <3> DEFINE p == [proc[r] EXCEPT !.busy = TRUE, !.current = m, !.last = m]
    <3>1. p \in Procs /\ p.queue = proc[r].queue
      BY <1>1, <1>3
    <3>2. proc' = [proc EXCEPT ![r] = p]
      BY <2>1
    <3> HIDE DEF p
    <3> QED
      BY <1>3, <3>1, <3>2
  <2>3. task'[m] = "scheduled" /\ \A k \in Message \ {m} : task'[k] = task[k]
    BY <1>1, <1>3, <2>1
  <2>4. task' \in [Message -> Live \union {"none", "done"}]
    BY <1>3, <2>1 DEF Live
  <2>5. Queued'
    <3>1. ASSUME NEW k \in Message, NEW i \in DOMAIN proc[k].queue
          PROVE  LET j == proc[k].queue[i]
                 IN  home'[j] = k /\ task'[j] = "none" /\ told'[j] = FALSE
      BY <1>1, <1>2, <1>4, <2>3 DEF HandlerInv, TaskInv, Queued
    <3>2. ASSUME NEW k \in Message
          PROVE  /\ \A i \in DOMAIN proc'[k].queue :
                      LET j == proc'[k].queue[i]
                      IN  home'[j] = k /\ task'[j] = "none" /\ told'[j] = FALSE
                 /\ \A i, j \in DOMAIN proc'[k].queue :
                      proc'[k].queue[i] = proc'[k].queue[j] => i = j
      <4> DEFINE q == proc[k].queue
      <4>1. /\ \A i \in DOMAIN q : home'[q[i]] = k /\ task'[q[i]] = "none" /\ told'[q[i]] = FALSE
            /\ \A i, j \in DOMAIN q : q[i] = q[j] => i = j
        BY <3>1 DEF HandlerInv, TaskInv, Queued
      <4>2. proc'[k].queue = q
        BY <2>2
      <4> QED
        BY <4>1, <4>2
    <3> QED
      BY <3>2 DEF Queued
  <2>6. ActiveIsServed'
    <3> SUFFICES ASSUME NEW k \in inTree', home'[k] \in trees', state'[k] \in Active
                 PROVE  task'[k] \in Live \/ k \in Range(proc'[home'[k]].queue)
                        \/ (task'[k] = "done" /\ ~told'[k])
      BY DEF ActiveIsServed
    <3>1. CASE k = m
      BY <2>3, <3>1 DEF Live
    <3>2. CASE k # m
      <4>1. k \in Message \ {m} /\ k \in inTree
        BY <1>2, <3>2 DEF NewNode, AddNode, HandlerInv, TypeOK
      <4>2. home[k] \in Message /\ home[k] \in trees /\ state[k] \in Active
        BY <1>2, <4>1, IdFacts DEF HandlerInv, TypeOK, ChatInv, Mapped, Known
      <4>3. \/ task[k] \in Live \/ k \in Range(proc[home[k]].queue)
            \/ task[k] = "done" /\ ~told[k]
        BY <4>1, <4>2 DEF HandlerInv, TaskInv, ActiveIsServed
      <4>4. proc'[home'[k]].queue = proc[home[k]].queue
        BY <1>2, <2>2, <4>1, <4>2
      <4> QED
        BY <1>1, <2>3, <4>1, <4>3, <4>4
    <3> QED
      BY <3>1, <3>2
  <2>7. Working'
    BY <1>1, <1>2, <2>3, IdFacts DEF HandlerInv, TaskInv, Working, Active
  <2>8. Orphans'
    BY <1>1, <1>2, <1>7, <2>3 DEF HandlerInv, TaskInv, Orphans
  <2> QED
    BY <2>2, <2>4, <2>5, <2>6, <2>7, <2>8 DEF TaskInv
<1> QED
  BY <1>5, <1>6

LEMMA AcceptOK ==
    ASSUME FileStore, HandlerInv, NEW m \in Message, NewConversation(m) \/ Continue(m)
    PROVE  HandlerInv' /\ StoreMoves
<1>1. PICK r \in Message : NewNode(m, r) /\ Saves(m, r) /\ Enqueue(m, r)
  BY AcceptShape
<1>2. ChatInv' /\ StoreInv' /\ TaskInv' /\ store' \in Stores
  BY <1>1, NewNodeChat, NewNodeStore, NewNodeTask, SavesNode
<1>3. TypeOK'
  <2>1. proc' \in [Message -> Procs]
        /\ task' \in [Message -> Live \union {"none", "done"}]
    BY <1>1, NewNodeTask
  <2>2. PICK p \in Message \union {None} : AddNode(m, r, p)
    BY <1>1 DEF NewNode
  <2>3. /\ trees' \subseteq Message /\ inTree' \subseteq Message
        /\ where' \in [Ids -> Message \union {None}]
        /\ home' \in [Message -> Message \union {None}]
        /\ parent' \in [Message -> Message \union {None}]
        /\ state' \in [Message -> States]
    BY <2>2 DEF AddNode, HandlerInv, TypeOK, States, Active
  <2>4. pc' \in [Message -> {"none", "transcribing", "sending", "done", "refused", "dropped"}]
    BY <1>1 DEF NewNode, Handling, HandlerInv, TypeOK
  <2>5. UNCHANGED <<target, pending, told, cancelReq, sees, command, cleared, overtaken, escaped,
                    up, interruptions, disk, finished, lost, revived>>
    BY <1>1 DEF NewNode, historyVars, countVars, fileVars
  <2> QED
    BY <1>2, <2>1, <2>3, <2>4, <2>5 DEF HandlerInv, TypeOK, Stores, Procs
<1>w. StoreMoves
  <2>1. /\ m \in inTree' /\ state'[m] = "pending" /\ m \in Message
        /\ \A k \in Message \ {m} : state'[k] = state[k] /\ (k \in inTree' <=> k \in inTree)
    BY <1>1, NewNodeFacts
  <2>2. /\ store'.trees[r][m] = "pending"
        /\ \A k, q \in Message : q # r => store'.trees[q][k] = store.trees[q][k]
        /\ \A k \in Message \ {m} :
             store'.trees[r][k] = IF k \in inTree /\ home[k] = r THEN state[k] ELSE "absent"
    BY <1>1, SavesNode
  <2> SUFFICES ASSUME NEW q \in Message, NEW k \in Message
               PROVE  \/ store'.trees[q][k] \in {store.trees[q][k], "absent"}
                      \/ k \in inTree' /\ store'.trees[q][k] = state'[k]
    BY DEF StoreMoves
  <2>3. CASE q # r
    BY <2>2, <2>3
  <2>4. CASE q = r /\ k = m
    BY <2>1, <2>2, <2>4
  <2>5. CASE q = r /\ k # m
    BY <2>1, <2>2, <2>5
  <2> QED
    BY <2>3, <2>4, <2>5
<1> QED
  BY <1>w, <1>2, <1>3 DEF HandlerInv

-----------------------------------------------------------------------------
(* /stop and /clear. *)

\* The queues lose nodes, and keep the order of the others.
Shrinks ==
    \A r \in Message : TakenFrom(proc'[r].queue, proc[r].queue)

\* A step that leaves the queues alone.
LEMMA NothingShrinks ==
    ASSUME UNCHANGED proc
    PROVE  Shrinks
BY TakenFromItself DEF Shrinks

\* remove_if_present in the queue of one tree.
LEMMA RemovedFromQueue ==
    ASSUME TypeOK, NEW r \in Message, NEW S, RemoveFromQueue(r, S)
    PROVE  /\ proc' \in [Message -> Procs]
           /\ Shrinks
           /\ \A k \in Message : \A m \in Range(proc[k].queue) :
                m \in S \/ m \in Range(proc'[k].queue)
<1>1. proc \in [Message -> Procs] /\ proc[r].queue \in Seq(Message)
  BY DEF TypeOK, Procs
<1>2. PICK f \in Kept(proc[r].queue, S) :
        proc' = [proc EXCEPT ![r].queue = [i \in DOMAIN f |-> proc[r].queue[f[i]]]]
  BY DEF RemoveFromQueue
<1> DEFINE q == [i \in DOMAIN f |-> proc[r].queue[f[i]]]
<1>3. /\ q \in Seq(Message) /\ TakenFrom(q, proc[r].queue)
      /\ \A m \in Range(proc[r].queue) \ S : m \in Range(q)
  BY <1>1, <1>2, KeptQueue
<1> HIDE DEF q
<1>4. proc' = [proc EXCEPT ![r] = [proc[r] EXCEPT !.queue = q]]
  BY <1>1, <1>2 DEF q
<1>5. /\ [proc[r] EXCEPT !.queue = q] \in Procs
      /\ [proc[r] EXCEPT !.queue = q].queue = q
  BY <1>1, <1>3 DEF Procs
<1>6. /\ proc' \in [Message -> Procs] /\ proc'[r].queue = q
      /\ \A k \in Message : k # r => proc'[k] = proc[k]
  BY <1>1, <1>4, <1>5
<1>7. Shrinks
  <2> SUFFICES ASSUME NEW k \in Message PROVE TakenFrom(proc'[k].queue, proc[k].queue)
    BY DEF Shrinks
  <2>1. CASE k = r
    BY <1>3, <1>6, <2>1
  <2>2. CASE k # r
    BY <1>6, <2>2, TakenFromItself
  <2> QED
    BY <2>1, <2>2
<1>8. ASSUME NEW k \in Message, NEW m \in Range(proc[k].queue), m \notin S
      PROVE  m \in Range(proc'[k].queue)
  BY <1>3, <1>6, <1>8
<1> QED
  BY <1>6, <1>7, <1>8

\* cancel() of some tasks.
LEMMA CancelledTasks ==
    ASSUME TypeOK, NEW S, CancelTasks(S)
    PROVE  /\ cancelReq' \in [Message -> BOOLEAN]
           /\ \A n \in Message : cancelReq[n] = TRUE => cancelReq'[n] = TRUE
BY DEF CancelTasks, TypeOK

\* Nodes that become errors.
LEMMA ErrorsEffect ==
    ASSUME TypeOK, NEW S
    PROVE  /\ Errors(S) \in [Message -> States]
           /\ \A m \in Message : Errors(S)[m] = IF m \in S THEN "error" ELSE state[m]
BY DEF Errors, TypeOK, States

\* cancel_tree for the trees R.
LEMMA CancelledTrees ==
    ASSUME TypeOK, NEW R \in SUBSET Message, CancelTrees(R)
    PROVE  /\ proc' \in [Message -> Procs] /\ Shrinks
           /\ cancelReq' \in [Message -> BOOLEAN]
           /\ \A n \in Message : cancelReq[n] = TRUE => cancelReq'[n] = TRUE
           /\ state' \in [Message -> States]
           /\ \A m \in Message : state'[m] \in {state[m], "error"}
           /\ \A m \in inTree :
                /\ m \in Range(proc[home[m]].queue) /\ home[m] \in Message =>
                     state'[m] = "error" \/ m \in Range(proc'[home[m]].queue)
<1>1. /\ cancelReq' \in [Message -> BOOLEAN]
      /\ \A n \in Message : cancelReq[n] = TRUE => cancelReq'[n] = TRUE
  BY CancelledTasks DEF CancelTrees
<1>2. /\ state' \in [Message -> States] /\ \A m \in Message : state'[m] \in {state[m], "error"}
      /\ \A m \in Message : m \in inTree /\ home[m] \in R /\ m \in Range(proc[home[m]].queue) =>
           state'[m] = "error"
  BY ErrorsEffect DEF CancelTrees, CancelledState
<1>3. proc \in [Message -> Procs]
  BY DEF TypeOK, Procs
<1>4. proc' = [r \in Message |-> IF r \in R THEN [Idle EXCEPT !.last = proc[r].last] ELSE proc[r]]
  BY DEF CancelTrees
<1>5. ASSUME NEW r \in Message
      PROVE  /\ [Idle EXCEPT !.last = proc[r].last] \in Procs
             /\ [Idle EXCEPT !.last = proc[r].last].queue = <<>>
  <2>1. proc[r].last \in Message \union {None}
    BY <1>3 DEF Procs
  <2>2. Idle \in Procs /\ Idle.queue = <<>>
    BY DEF Idle, Procs
  <2> QED
    BY <2>1, <2>2 DEF Procs
<1>6. /\ proc' \in [Message -> Procs]
      /\ \A r \in R : proc'[r].queue = <<>>
      /\ \A r \in Message \ R : proc'[r] = proc[r]
  BY <1>3, <1>4, <1>5
<1>7. Shrinks
  <2> SUFFICES ASSUME NEW k \in Message PROVE TakenFrom(proc'[k].queue, proc[k].queue)
    BY DEF Shrinks
  <2>1. CASE k \in R
    <3>1. proc'[k].queue = <<>>
      BY <1>6, <2>1
    <3> DEFINE g == [i \in {} |-> i]
    <3>2. g \in [DOMAIN <<>> -> DOMAIN proc[k].queue] /\ DOMAIN <<>> = {}
      OBVIOUS
    <3> HIDE DEF g
    <3> QED
      BY <3>1, <3>2 DEF TakenFrom
  <2>2. CASE k \notin R
    BY <1>6, <2>2, TakenFromItself
  <2> QED
    BY <2>1, <2>2
<1>8. ASSUME NEW m \in inTree, m \in Range(proc[home[m]].queue), home[m] \in Message
      PROVE  state'[m] = "error" \/ m \in Range(proc'[home[m]].queue)
  <2>1. m \in Message
    BY DEF TypeOK
  <2>2. CASE home[m] \in R
    BY <1>2, <1>8, <2>1, <2>2
  <2>3. CASE home[m] \notin R
    BY <1>6, <1>8, <2>3
  <2> QED
    BY <2>2, <2>3
<1> QED
  BY <1>1, <1>2, <1>6, <1>7, <1>8

\* A command leaves the running tasks alone; what it takes out of a queue is an
\* error, or no node any more.
LEMMA CommandTasks ==
    ASSUME HandlerInv, UNCHANGED <<home, told, task, sees>>, trees' \subseteq trees,
           inTree' \subseteq inTree, Shrinks,
           \A m \in inTree' : state'[m] \in {state[m], "error"},
           \A m \in inTree' : m \in Range(proc[home[m]].queue) /\ home[m] \in trees' =>
               state'[m] = "error" \/ m \in Range(proc'[home[m]].queue)
    PROVE  Queued' /\ Working' /\ ActiveIsServed'
<1>1. Queued'
  <2> SUFFICES ASSUME NEW r \in Message
               PROVE  /\ \A i \in DOMAIN proc'[r].queue :
                           LET m == proc'[r].queue[i]
                           IN  home'[m] = r /\ task'[m] = "none" /\ told'[m] = FALSE
                      /\ \A i, j \in DOMAIN proc'[r].queue :
                           proc'[r].queue[i] = proc'[r].queue[j] => i = j
    BY DEF Queued
  <2>1. PICK f \in [DOMAIN proc'[r].queue -> DOMAIN proc[r].queue] :
             /\ \A i \in DOMAIN proc'[r].queue : proc'[r].queue[i] = proc[r].queue[f[i]]
             /\ \A i, j \in DOMAIN proc'[r].queue : f[i] = f[j] => i = j
    BY DEF Shrinks, TakenFrom
  <2>2. \A i \in DOMAIN proc'[r].queue : f[i] \in DOMAIN proc[r].queue
    BY <2>1
  <2> DEFINE q == proc[r].queue
             z == proc'[r].queue
  <2>3. /\ \A i \in DOMAIN q : home[q[i]] = r /\ task[q[i]] = "none" /\ told[q[i]] = FALSE
        /\ \A i, j \in DOMAIN q : q[i] = q[j] => i = j
    BY DEF HandlerInv, TaskInv, Queued
  <2>4. \A i \in DOMAIN z : home[z[i]] = r /\ task[z[i]] = "none" /\ told[z[i]] = FALSE
    BY <2>1, <2>2, <2>3
  <2>5. \A i, j \in DOMAIN z : z[i] = z[j] => i = j
    BY <2>1, <2>2, <2>3
  <2> QED
    BY <2>4, <2>5
<1>2. \A m : Known(m)' => Known(m) /\ m \in Message /\ m \in inTree'
  BY DEF Known, HandlerInv, TypeOK
<1>3. Working'
  BY <1>2 DEF HandlerInv, TaskInv, Working, Active
<1>4. ActiveIsServed'
  <2> SUFFICES ASSUME NEW m \in inTree', home[m] \in trees', state'[m] \in Active
               PROVE  task[m] \in Live \/ m \in Range(proc'[home[m]].queue)
                      \/ (task[m] = "done" /\ ~told[m])
    BY DEF ActiveIsServed
  <2>1. state[m] \in Active /\ state'[m] # "error"
    BY DEF Active
  <2> QED
    BY <2>1 DEF HandlerInv, TaskInv, ActiveIsServed
<1> QED
  BY <1>1, <1>3, <1>4

\* A step that cancels tasks and drops no tree.
LEMMA OrphansKept ==
    ASSUME Orphans, UNCHANGED <<home, trees, task, sees, overtaken, escaped>>,
           \A n \in Message : cancelReq[n] = TRUE => cancelReq'[n] = TRUE
    PROVE  Orphans'
BY DEF Orphans, Ghosts

\* A step that leaves the messages and the repository alone.
LEMMA ChatKept ==
    ASSUME ChatInv, UNCHANGED <<handlingVars, repositoryVars, cleared, lost>>,
           \A m \in inTree : state'[m] # "absent"
    PROVE  ChatInv'
BY DEF ChatInv, Mapped, Answers, Remembered, Withdrawn, Known, handlingVars, repositoryVars

\* A command that cancels nodes, and saves known trees or none.
LEMMA CancellingOK ==
    ASSUME FileStore, HandlerInv, KeepsRepository, interruptions' \in Nat,
           command'.kind = "delete_branch" => command'.branch \in Message,
           proc' \in [Message -> Procs], Shrinks,
           cancelReq' \in [Message -> BOOLEAN],
           \A n \in Message : cancelReq[n] = TRUE => cancelReq'[n] = TRUE,
           state' \in [Message -> States],
           \A m \in Message : state'[m] \in {state[m], "error"},
           \A m \in inTree : m \in Range(proc[home[m]].queue) /\ home[m] \in trees =>
               state'[m] = "error" \/ m \in Range(proc'[home[m]].queue),
           NEW R \in SUBSET trees, store' \in {store, SaveAll(store, R, state', inTree)}
    PROVE  HandlerInv' /\ StoreMoves
<1>1. /\ UNCHANGED <<pc, target, pending, trees, where, home, parent, inTree, told, task, sees,
                     cleared, overtaken, escaped, up, disk, finished, lost, revived>>
      /\ UNCHANGED <<handlingVars, repositoryVars>>
  BY DEF KeepsRepository, handlingVars, repositoryVars, historyVars, fileVars
<1>2. TypeOK /\ inTree \subseteq Message /\ R \subseteq Message
  BY DEF HandlerInv, TypeOK
<1>3. \A m \in inTree : state[m] # "absent" /\ m \in Message /\ state'[m] # "absent"
  BY <1>2 DEF HandlerInv, ChatInv, Mapped
<1>4. ChatInv'
  BY <1>1, <1>3, ChatKept DEF HandlerInv
<1>5. Wrote({}) \/ Wrote(R)
  BY <1>1, <1>2, WroteNothing, WroteTrees
<1>6. StoreInv' /\ store' \in Stores
  <2>1. /\ inTree' \subseteq inTree /\ cleared \subseteq cleared' /\ cleared' \subseteq Message
        /\ \A m \in inTree \ inTree' : FALSE
        /\ revived' \subseteq revived
        /\ \A m \in (cleared' \ revived') \ (cleared \ revived) : FALSE
    BY <1>1, <1>2 DEF TypeOK
  <2>2. \A m \in inTree' : state'[m] = "completed" => state[m] = "completed"
    BY <1>1, <1>3
  <2>3. \A Q \in SUBSET trees : Wrote(Q) => StoreInv'
    <3> SUFFICES ASSUME NEW Q \in SUBSET trees, Wrote(Q) PROVE StoreInv'
      OBVIOUS
    <3>1. Q \in SUBSET Message /\ Q \subseteq trees \union Ghosts
      BY <1>2 DEF TypeOK
    <3> QED
      BY <1>1, <1>2, <1>3, <2>1, <2>2, <3>1, WrittenWell DEF HandlerInv
  <2>4. {} \in SUBSET trees
    OBVIOUS
  <2>5. StoreInv'
    BY <1>5, <2>3, <2>4
  <2>6. \A Q : Wrote(Q) => store' \in Stores
    BY DEF Wrote
  <2> QED
    BY <1>5, <2>5, <2>6
<1>7. TaskInv'
  <2>1. Queued' /\ Working' /\ ActiveIsServed'
    BY <1>1, <1>3, CommandTasks
  <2>2. Orphans'
    BY <1>1, OrphansKept DEF HandlerInv, TaskInv
  <2> QED
    BY <2>1, <2>2 DEF TaskInv
<1>8. TypeOK'
  BY <1>1, <1>6 DEF HandlerInv, TypeOK, Stores, Procs
<1>w. StoreMoves
  BY <1>5, WroteMoves
<1> QED
  BY <1>w, <1>4, <1>6, <1>7, <1>8 DEF HandlerInv

LEMMA StopAllOK ==
    ASSUME FileStore, HandlerInv, NEW kind \in {"stop_all", "clear_all"}, StopAll(kind)
    PROVE  HandlerInv' /\ StoreMoves
<1>1. CancelTrees(trees) /\ store' = store /\ KeepsRepository
      /\ interruptions' = interruptions + 1 /\ command'.kind # "delete_branch"
  BY DEF StopAll, Command
<1>2. TypeOK /\ trees \in SUBSET Message /\ interruptions' \in Nat
  BY <1>1 DEF HandlerInv, TypeOK
<1>3. /\ proc' \in [Message -> Procs] /\ Shrinks
      /\ cancelReq' \in [Message -> BOOLEAN]
      /\ \A n \in Message : cancelReq[n] = TRUE => cancelReq'[n] = TRUE
      /\ state' \in [Message -> States]
      /\ \A m \in Message : state'[m] \in {state[m], "error"}
      /\ \A m \in inTree :
           m \in Range(proc[home[m]].queue) /\ home[m] \in Message =>
             state'[m] = "error" \/ m \in Range(proc'[home[m]].queue)
  BY <1>1, <1>2, CancelledTrees
<1>4. {} \in SUBSET trees /\ store' \in {store, SaveAll(store, {}, state', inTree)}
  BY <1>1
<1> QED
  BY <1>1, <1>2, <1>3, <1>4, CancellingOK

LEMMA SessionsStoppedOK ==
    ASSUME FileStore, HandlerInv, SessionsStopped
    PROVE  HandlerInv' /\ StoreMoves
<1> DEFINE R == {home[n] : n \in command.nodes} \intersect trees
<1>1. /\ UNCHANGED <<state, proc, cancelReq, interruptions>> /\ KeepsRepository
      /\ store' = SaveAll(store, R, state, inTree)
      /\ command'.kind # "delete_branch"
  BY DEF SessionsStopped, SaveTreesOf, NoCommand
<1>2. R \in SUBSET trees
  OBVIOUS
<1>3. /\ proc' \in [Message -> Procs] /\ cancelReq' \in [Message -> BOOLEAN]
      /\ state' \in [Message -> States] /\ interruptions' \in Nat
  BY <1>1 DEF HandlerInv, TypeOK, Procs
<1>4. Shrinks
  BY <1>1, NothingShrinks
<1> HIDE DEF R
<1>5. store' \in {store, SaveAll(store, R, state', inTree)}
  BY <1>1
<1> QED
  BY <1>1, <1>2, <1>3, <1>4, <1>5, CancellingOK

LEMMA StopOK ==
    ASSUME FileStore, HandlerInv, NEW id \in Answerable, Stop(id)
    PROVE  HandlerInv' /\ StoreMoves
<1> DEFINE n == Resolve(id)
           R == {home[k] : k \in {n}} \intersect trees
           S == IF proc[home[n]].current = n THEN {proc[home[n]].last} ELSE {}
<1>1. /\ n # None /\ Command(NoCommand) /\ CancelTasks(S) /\ RemoveFromQueue(home[n], {n})
      /\ state' = Errors({n}) /\ store' = SaveAll(store, R, Errors({n}), inTree) /\ KeepsRepository
  BY DEF Stop, SaveTreesOf
<1>2. TypeOK /\ id \in Ids
  BY DEF HandlerInv, Answerable, Ids
<1>3. n \in inTree /\ n \in Message /\ home[n] \in Message
  BY <1>1, <1>2, Found DEF TypeOK
<1>4. R \in SUBSET trees
  OBVIOUS
<1> HIDE DEF n, R, S
<1>5. /\ proc' \in [Message -> Procs] /\ Shrinks
      /\ \A k \in Message : \A m \in Range(proc[k].queue) :
           m \in {n} \/ m \in Range(proc'[k].queue)
  BY <1>1, <1>2, <1>3, RemovedFromQueue
<1>6. /\ cancelReq' \in [Message -> BOOLEAN]
      /\ \A k \in Message : cancelReq[k] = TRUE => cancelReq'[k] = TRUE
  BY <1>1, <1>2, CancelledTasks
<1>7. /\ state' \in [Message -> States]
      /\ \A m \in Message : state'[m] = IF m \in {n} THEN "error" ELSE state[m]
  BY <1>1, <1>2, ErrorsEffect
<1>8. /\ interruptions' \in Nat /\ command'.kind # "delete_branch"
      /\ store' \in {store, SaveAll(store, R, state', inTree)}
  BY <1>1, <1>2 DEF Command, NoCommand, TypeOK
<1>9. \A m \in inTree : m \in Range(proc[home[m]].queue) /\ home[m] \in trees =>
        state'[m] = "error" \/ m \in Range(proc'[home[m]].queue)
  BY <1>2, <1>5, <1>7 DEF TypeOK
<1>10. \A m \in Message : state'[m] \in {state[m], "error"}
  BY <1>7
<1> QED
  BY <1>1, <1>4, <1>5, <1>6, <1>7, <1>8, <1>9, <1>10, CancellingOK

LEMMA ClearBranchOK ==
    ASSUME FileStore, HandlerInv, NEW id \in Answerable, ClearBranch(id)
    PROVE  HandlerInv' /\ StoreMoves
<1> DEFINE b == Resolve(id)
           A == {n \in Descendants(b) : state[n] \in Active}
           R == {home[k] : k \in A} \intersect trees
           S == IF proc[home[b]].current \in A THEN {proc[home[b]].last} ELSE {}
           Q == A \ {proc[home[b]].current}
<1>1. /\ b # None /\ Command([kind |-> "delete_branch", branch |-> b]) /\ CancelTasks(S)
      /\ RemoveFromQueue(home[b], Q)
      /\ state' = Errors(A) /\ store' = SaveAll(store, R, Errors(A), inTree) /\ KeepsRepository
  BY DEF ClearBranch, SaveTreesOf
<1>2. TypeOK /\ id \in Ids
  BY DEF HandlerInv, Answerable, Ids
<1>3. b \in inTree /\ b \in Message /\ home[b] \in Message
  BY <1>1, <1>2, Found DEF TypeOK
<1>4. R \in SUBSET trees /\ Q \subseteq A
  OBVIOUS
<1> HIDE DEF b, A, R, S, Q
<1>5. /\ proc' \in [Message -> Procs] /\ Shrinks
      /\ \A k \in Message : \A m \in Range(proc[k].queue) :
           m \in Q \/ m \in Range(proc'[k].queue)
  BY <1>1, <1>2, <1>3, RemovedFromQueue
<1>6. /\ cancelReq' \in [Message -> BOOLEAN]
      /\ \A k \in Message : cancelReq[k] = TRUE => cancelReq'[k] = TRUE
  BY <1>1, <1>2, CancelledTasks
<1>7. /\ state' \in [Message -> States]
      /\ \A m \in Message : state'[m] = IF m \in A THEN "error" ELSE state[m]
  BY <1>1, <1>2, ErrorsEffect
<1>8. /\ interruptions' \in Nat /\ command'.branch \in Message
      /\ store' \in {store, SaveAll(store, R, state', inTree)}
  BY <1>1, <1>2, <1>3 DEF Command, TypeOK
<1>9. \A m \in inTree : m \in Range(proc[home[m]].queue) /\ home[m] \in trees =>
        state'[m] = "error" \/ m \in Range(proc'[home[m]].queue)
  BY <1>2, <1>4, <1>5, <1>7 DEF TypeOK
<1>10. \A m \in Message : state'[m] \in {state[m], "error"}
  BY <1>7
<1> QED
  BY <1>1, <1>4, <1>5, <1>6, <1>7, <1>8, <1>9, <1>10, CancellingOK

LEMMA ClearVoiceOK ==
    ASSUME HandlerInv, NEW id \in Answerable, ClearVoice(id)
    PROVE  HandlerInv' /\ StoreMoves
<1>1. PICK v \in PendingNote(id) : pending' = pending \ {v} /\ cleared' = cleared \union {v}
  BY DEF ClearVoice
<1>2. UNCHANGED <<pc, target, trees, where, home, parent, inTree, state, proc, told, task, cancelReq,
                  sees, store, overtaken, escaped, up, disk, finished, lost, revived>>
      /\ interruptions' = interruptions + 1 /\ command' = NoCommand
  BY DEF ClearVoice, Command, repositoryVars, taskVars, fileVars
<1>3. v \in pending /\ v \in Message /\ pc[v] \in {"transcribing", "dropped"}
      /\ home[v] = None /\ v \notin inTree
  BY <1>1, VoiceNotesAreMessages
     DEF PendingNote, HandlerInv, TypeOK, ChatInv, Withdrawn, Mapped
<1>4. TypeOK'
  BY <1>1, <1>2, <1>3 DEF HandlerInv, TypeOK, NoCommand
<1>5. ChatInv'
  <2>1. Mapped'
    BY <1>2 DEF HandlerInv, ChatInv, Mapped, Known
  <2>2. Answers' /\ Remembered'
    BY <1>1, <1>2 DEF HandlerInv, ChatInv, Answers, Remembered, Known
  <2>3. Withdrawn'
    BY <1>1, <1>2, <1>3 DEF HandlerInv, ChatInv, Withdrawn
  <2> QED
    BY <2>1, <2>2, <2>3 DEF ChatInv
<1>6. StoreInv'
  <2>1. Wrote({})
    BY <1>2, WroteNothing DEF HandlerInv
  <2>2. /\ inTree' \subseteq inTree /\ cleared \subseteq cleared' /\ cleared' \subseteq Message
        /\ \A m \in inTree \ inTree' : FALSE
        /\ revived' \subseteq revived
        /\ \A m \in (cleared' \ revived') \ (cleared \ revived) :
              m \notin inTree' /\ home[m] \in {} \union {None}
        /\ \A m \in inTree' : state'[m] # "absent"
        /\ \A m \in inTree' : state'[m] = "completed" => state[m] = "completed"
    BY <1>1, <1>2, <1>3 DEF HandlerInv, TypeOK, ChatInv, Mapped
  <2> QED
    BY <1>2, <2>1, <2>2, WrittenWell DEF HandlerInv
<1>7. TaskInv'
  <2>1. Queued' /\ ActiveIsServed'
    BY <1>2 DEF HandlerInv, TaskInv, Queued, ActiveIsServed
  <2>2. Working' /\ Orphans'
    BY <1>2 DEF HandlerInv, TaskInv, Working, Orphans, Known, Ghosts
  <2> QED
    BY <2>1, <2>2 DEF TaskInv
<1>w. StoreMoves
  BY <1>2, StoreStays
<1> QED
  BY <1>w, <1>4, <1>5, <1>6, <1>7 DEF HandlerInv

\* The messages of a branch are deleted.
LEMMA BranchDeletedOK ==
    ASSUME FileStore, HandlerInv, BranchDeleted
    PROVE  HandlerInv' /\ StoreMoves
<1> DEFINE b == command.branch
           r == home[b]
           gone == Descendants(b)
           kept == inTree \ gone
           dict == ToDict(r, state, kept)
           z == RemoveMappings(store, gone)
<1>1. /\ command.kind = "delete_branch" /\ TreeFor(b) # None /\ b \in inTree
      /\ inTree' = kept
      /\ where' = [id \in Ids |-> IF id \in gone THEN None ELSE where[id]]
      /\ store' = Save(z, r, dict)
      /\ cleared' = cleared \union gone /\ revived' = revived \ gone /\ command' = NoCommand
      /\ UNCHANGED <<pc, target, pending, trees, home, parent, state, proc, told, task, cancelReq,
                     sees, overtaken, escaped, up, interruptions, disk, finished, lost>>
  BY DEF BranchDeleted, Clears, handlingVars, taskVars, countVars
<1>2. TypeOK /\ b \in Message /\ r \in trees /\ r \in Message
  <2>1. TypeOK /\ b \in Message
    BY <1>1 DEF HandlerInv, TypeOK
  <2>2. where[b] \in trees /\ where[b] # None
    BY <1>1 DEF TreeFor
  <2>3. where[b] = home[b]
    BY <2>1, <2>2 DEF HandlerInv, ChatInv, Mapped
  <2> QED
    BY <2>1, <2>2, <2>3 DEF TypeOK
<1>3. /\ gone \subseteq inTree /\ gone \subseteq Message /\ \A m \in gone : home[m] = r
      /\ kept \subseteq inTree /\ inTree \subseteq Message
  BY <1>2, NodesOfTree DEF TypeOK
<1> HIDE DEF b, gone
<1>4. /\ z \in Stores /\ z.trees = store.trees
      /\ \A m \in Message : z.where[m] = IF m \in gone THEN None ELSE store.where[m]
      /\ \A m \in Message : z.where[Status(m)] = store.where[Status(m)]
  <2> DEFINE W == [id \in Ids |-> IF id \in gone THEN None ELSE store.where[id]]
  <2>1. store \in Stores
    BY <1>2 DEF TypeOK, Stores
  <2>2. z = [store EXCEPT !.where = W]
    BY <2>1 DEF RemoveMappings
  <2>3. W \in [Ids -> Message \union {None}]
    BY <2>1 DEF Stores
  <2>4. /\ \A m \in Message : W[m] = IF m \in gone THEN None ELSE store.where[m]
        /\ \A m \in Message : W[Status(m)] = store.where[Status(m)]
    BY <1>3, IdFacts
  <2> HIDE DEF W, z
  <2>5. z \in Stores /\ z.trees = store.trees /\ z.where = W
    BY <2>1, <2>2, <2>3 DEF Stores
  <2> QED
    BY <2>4, <2>5
<1>5. /\ dict \in [Message -> States]
      /\ \A m \in Message : dict[m] = IF m \in kept /\ home[m] = r THEN state[m] ELSE "absent"
  <2>1. state \in [Message -> States]
    BY <1>2 DEF TypeOK
  <2> HIDE DEF kept, r
  <2> QED
    BY <2>1, DictType
<1> HIDE DEF dict, z
<1>6. /\ store' \in Stores
      /\ \A k \in Message : store'.trees[k] = IF k = r THEN dict ELSE z.trees[k]
      /\ \A m \in Message : store'.where[m] = IF dict[m] # "absent" THEN r ELSE z.where[m]
      /\ \A m \in Message : store'.where[Status(m)] = z.where[Status(m)]
  BY <1>1, <1>2, <1>4, <1>5, SaveEffect
<1>7. Wrote({r})
  BY <1>1, <1>3, <1>4, <1>5, <1>6 DEF Wrote
<1>8. StoreInv'
  <2>1. /\ inTree' \subseteq inTree /\ cleared \subseteq cleared' /\ cleared' \subseteq Message
        /\ {r} \subseteq trees \union Ghosts /\ {r} \in SUBSET Message
    BY <1>1, <1>2, <1>3 DEF TypeOK
  <2>2. /\ \A m \in inTree \ inTree' : home[m] \in {r} /\ m \in cleared'
        /\ revived' \subseteq revived
        /\ \A m \in (cleared' \ revived') \ (cleared \ revived) :
              m \notin inTree' /\ home[m] \in {r} \union {None}
    BY <1>1, <1>3
  <2>3. /\ \A m \in inTree' : state'[m] # "absent"
        /\ \A m \in inTree' : state'[m] = "completed" => state[m] = "completed"
    BY <1>1, <1>3 DEF HandlerInv, ChatInv, Mapped
  <2> QED
    BY <1>1, <1>2, <1>7, <2>1, <2>2, <2>3, WrittenWell DEF HandlerInv
<1>9. ChatInv'
  <2>1. /\ \A m \in Message : where'[m] = IF m \in gone THEN None ELSE where[m]
        /\ \A m \in Message : where'[Status(m)] = where[Status(m)]
        /\ where' \in [Ids -> Message \union {None}]
    BY <1>1, <1>2, <1>3, IdFacts DEF TypeOK
  <2>2. \A m \in Message : Known(m)' <=> Known(m) /\ m \notin gone
    BY <1>1, <1>3 DEF Known
  <2>3. \A m \in gone : pc[m] = "done" /\ home[m] # None
    BY <1>3 DEF HandlerInv, ChatInv, Mapped
  <2>4. Mapped'
    BY <1>1, <1>3, <2>1, <2>2 DEF HandlerInv, ChatInv, Mapped
  <2>5. Answers' /\ Remembered'
    BY <1>1, <2>1, <2>2 DEF HandlerInv, ChatInv, Answers, Remembered
  <2>6. Withdrawn'
    BY <1>1, <2>3 DEF HandlerInv, ChatInv, Withdrawn
  <2> QED
    BY <2>4, <2>5, <2>6 DEF ChatInv
<1>10. TaskInv'
  <2>1. Shrinks
    BY <1>1, NothingShrinks
  <2>2. Queued' /\ Working' /\ ActiveIsServed'
    BY <1>1, <1>3, <2>1, CommandTasks
  <2>3. Orphans'
    BY <1>1, OrphansKept DEF HandlerInv, TaskInv
  <2> QED
    BY <2>2, <2>3 DEF TaskInv
<1>11. TypeOK'
  <2>1. /\ where' \in [Ids -> Message \union {None}] /\ inTree' \subseteq Message
        /\ cleared' \subseteq Message /\ revived' \subseteq Message
        /\ command'.kind # "delete_branch"
    BY <1>1, <1>2, <1>3 DEF TypeOK, NoCommand
  <2> QED
    BY <1>1, <1>2, <1>6, <2>1 DEF TypeOK, Stores
<1>w. StoreMoves
  BY <1>7, WroteMoves
<1> QED
  BY <1>w, <1>8, <1>9, <1>10, <1>11 DEF HandlerInv

\* A tree is deleted: a task that still runs for it is cancelled, or its tree
\* may come back.
LEMMA TreeDeletedOK ==
    ASSUME FileStore, HandlerInv, TreeDeleted
    PROVE  HandlerInv' /\ StoreMoves
<1> DEFINE r == command.branch
           gone == Nodes(r)
<1>1. /\ command.kind = "delete_branch" /\ TreeFor(r) = r /\ CancelTrees({r})
      /\ trees' = trees \ {r}
      /\ where' = [id \in Ids |-> IF id \in gone THEN None ELSE where[id]]
      /\ store' = RemoveTree(RemoveMappings(store, gone), r)
      /\ cleared' = cleared \union gone /\ revived' = revived \ gone
      /\ escaped' = escaped \union Escaping({r}, cancelReq')
      /\ command' = NoCommand
      /\ UNCHANGED <<pc, target, pending, home, parent, inTree, told, task, sees, overtaken, up,
                     interruptions, disk, finished, lost>>
  BY DEF TreeDeleted, Clears, handlingVars, countVars
<1>2. TypeOK /\ r \in Message /\ r \in trees
  <2>1. TypeOK /\ r \in Message
    BY <1>1 DEF HandlerInv, TypeOK
  <2> QED
    BY <1>1, <2>1, IdFacts DEF TreeFor
<1>3. gone = {m \in inTree : home[m] = r} /\ inTree \subseteq Message
  BY <1>2, NodesOfTree DEF TypeOK
<1> HIDE DEF r, gone
<1>4. /\ proc' \in [Message -> Procs] /\ Shrinks
      /\ cancelReq' \in [Message -> BOOLEAN]
      /\ \A n \in Message : cancelReq[n] = TRUE => cancelReq'[n] = TRUE
      /\ state' \in [Message -> States]
      /\ \A m \in Message : state'[m] \in {state[m], "error"}
      /\ \A m \in inTree :
           m \in Range(proc[home[m]].queue) /\ home[m] \in Message =>
             state'[m] = "error" \/ m \in Range(proc'[home[m]].queue)
  BY <1>1, <1>2, CancelledTrees
<1>5. /\ store' \in Stores
      /\ \A k, m \in Message : store'.trees[k][m] = IF k = r THEN "absent" ELSE store.trees[k][m]
      /\ \A m \in Message : store'.where[m] =
           IF m \in gone \/ store.trees[r][m] # "absent" THEN None ELSE store.where[m]
      /\ \A m \in Message : store'.where[Status(m)] = store.where[Status(m)]
  <2> DEFINE V == [id \in Ids |-> IF id \in gone THEN None ELSE store.where[id]]
             T == [store.trees EXCEPT ![r] = NoTree]
             W == [id \in Ids |-> IF id \in {m \in Message : store.trees[r][m] # "absent"}
                                  THEN None ELSE V[id]]
  <2>1. store \in Stores
    BY <1>2 DEF TypeOK, Stores
  <2>2. RemoveMappings(store, gone) = [trees |-> store.trees, where |-> V]
    BY <2>1 DEF RemoveMappings, Stores
  <2>3. store' = [trees |-> T, where |-> W]
    BY <1>1, <2>2 DEF RemoveTree, FileStore
  <2>4. /\ T \in [Message -> [Message -> States]]
        /\ \A k, m \in Message : T[k][m] = IF k = r THEN "absent" ELSE store.trees[k][m]
    BY <2>1 DEF Stores, NoTree, States
  <2>5. /\ W \in [Ids -> Message \union {None}]
        /\ \A m \in Message :
             W[m] = IF m \in gone \/ store.trees[r][m] # "absent" THEN None ELSE store.where[m]
        /\ \A m \in Message : W[Status(m)] = store.where[Status(m)]
    BY <1>3, <2>1, IdFacts DEF Stores
  <2> HIDE DEF T, W
  <2> QED
    BY <2>3, <2>4, <2>5 DEF Stores
<1>6. /\ \A m \in Message : Known(m)' <=> Known(m) /\ m \notin gone
      /\ \A m \in gone : m \in Message /\ Known(m) /\ home[m] = r
  BY <1>1, <1>2, <1>3 DEF Known
<1>7. Ghosts \subseteq Ghosts'
  BY <1>1 DEF Ghosts
<1>8. TypeOK'
  <2>1. /\ where' \in [Ids -> Message \union {None}] /\ trees' \subseteq Message
        /\ cleared' \subseteq Message /\ escaped' \subseteq Message
        /\ revived' \subseteq Message /\ command'.kind # "delete_branch"
    BY <1>1, <1>2, <1>3 DEF TypeOK, NoCommand, Escaping
  <2>2. /\ task' \in [Message -> Live \union {"none", "done"}]
        /\ state' \in [Message -> States] /\ proc' \in [Message -> Procs]
        /\ store' \in Stores
    BY <1>1, <1>2, <1>4, <1>5 DEF TypeOK
  <2>3. disk' \in Stores
    BY <1>1, <1>2 DEF TypeOK, Stores
  <2>4. /\ up' \in BOOLEAN
        /\ pc' \in [Message -> {"none", "transcribing", "sending", "done", "refused", "dropped"}]
        /\ target' \in [Message -> Ids \union {None}] /\ pending' \subseteq Voice
        /\ inTree' \subseteq Message
        /\ home' \in [Message -> Message \union {None}]
        /\ parent' \in [Message -> Message \union {None}]
    BY <1>1, <1>2 DEF TypeOK
  <2>5. /\ told' \in [Message -> BOOLEAN] /\ cancelReq' \in [Message -> BOOLEAN]
        /\ sees' \in [Message -> BOOLEAN] /\ interruptions' \in Nat
        /\ overtaken' \subseteq Message /\ finished' \subseteq Message
        /\ lost' \subseteq Message
    BY <1>1, <1>2, <1>4 DEF TypeOK
  <2> QED
    BY <2>1, <2>2, <2>3, <2>4, <2>5 DEF TypeOK, Stores, Procs
<1>9. ChatInv'
  <2>1. /\ \A m \in Message : where'[m] = IF m \in gone THEN None ELSE where[m]
        /\ \A m \in Message : where'[Status(m)] = where[Status(m)]
    BY <1>1, <1>3, IdFacts
  <2>2. \A m \in gone : pc[m] = "done" /\ home[m] # None
    BY <1>2, <1>6, IdFacts DEF HandlerInv, ChatInv, Mapped
  <2>3. Mapped'
    <3>1. \A m \in inTree : state'[m] # "absent"
      BY <1>3, <1>4 DEF HandlerInv, ChatInv, Mapped
    <3> QED
      BY <1>1, <1>3, <1>6, <2>1, <3>1 DEF HandlerInv, ChatInv, Mapped
  <2>4. Answers' /\ Remembered'
    BY <1>1, <1>6, <2>1 DEF HandlerInv, ChatInv, Answers, Remembered
  <2>5. Withdrawn'
    BY <1>1, <2>2 DEF HandlerInv, ChatInv, Withdrawn
  <2> QED
    BY <2>3, <2>4, <2>5 DEF ChatInv
<1>10. StoreInv'
  <2>1. Filed'
    <3>1. ASSUME NEW m \in Message, store'.where[m] # None PROVE store'.where[m] = home[m]
      BY <1>5, <3>1 DEF HandlerInv, StoreInv, Filed
    <3>2. ASSUME NEW m \in Message, NEW k \in Message, store'.trees[k][m] # "absent"
          PROVE  home[m] = k /\ store'.where[m] = k
      <4>1. k # r /\ home[m] = k /\ store.where[m] = k
        BY <1>5, <3>2 DEF HandlerInv, StoreInv, Filed
      <4>2. m \notin gone /\ store.trees[r][m] = "absent"
        BY <1>2, <1>3, <4>1 DEF HandlerInv, StoreInv, Filed
      <4> QED
        BY <1>5, <4>1, <4>2
    <3> QED
      BY <1>1, <3>1, <3>2 DEF Filed
  <2>2. Stored'
    <3> SUFFICES ASSUME NEW m \in Message, home[m] # None, m \notin cleared', m \notin lost
                 PROVE  store'.where[Status(m)] = home[m] /\ store'.trees[home[m]][m] # "absent"
      BY <1>1 DEF Stored
    <3>1. m \notin cleared /\ m \notin gone
      BY <1>1
    <3>2. Known(m) /\ home[m] # r /\ home[m] \in Message
      BY <1>2, <1>3, <3>1 DEF HandlerInv, ChatInv, Mapped, Remembered, Known, TypeOK
    <3> QED
      BY <1>5, <3>1, <3>2 DEF HandlerInv, StoreInv, Stored
  <2>3. Erased'
    <3> SUFFICES ASSUME NEW m \in cleared' \ revived', home[m] \notin Ghosts'
                 PROVE  ~Known(m)' /\ \A k \in Message : store'.trees[k][m] = "absent"
      BY <1>1 DEF Erased
    <3>1. CASE m \in gone
      BY <1>5, <1>6, <3>1 DEF HandlerInv, StoreInv, Filed
    <3>2. CASE m \in cleared \ revived
      <4>1. m \in Message /\ home[m] \notin Ghosts
        BY <1>2, <1>7, <3>2 DEF TypeOK
      <4> QED
        BY <1>5, <1>6, <3>2, <4>1 DEF HandlerInv, StoreInv, Erased
    <3> QED
      BY <1>1, <3>1, <3>2
  <2>4. Unsaved'
    <3>1. \A n \in Escaping({r}, cancelReq') : home[n] = r /\ home[n] # None
      BY <1>2, IdFacts DEF Escaping
    <3>2. \A n \in escaped' \union overtaken' : home[n] # None
      BY <1>1, <3>1 DEF HandlerInv, StoreInv, Unsaved
    <3>3. ASSUME NEW k \in Message, k \notin trees', k \notin Ghosts', NEW m \in Message
          PROVE  store'.trees[k][m] = "absent"
      <4>1. k = r \/ (k \notin trees /\ k \notin Ghosts)
        BY <1>1, <1>7, <3>3
      <4> QED
        BY <1>5, <4>1 DEF HandlerInv, StoreInv, Unsaved
    <3> QED
      BY <1>1, <3>2, <3>3 DEF Unsaved
  <2>5. CompletedIsStored'
    <3> SUFFICES ASSUME NEW m \in inTree, home[m] \in trees', state'[m] = "completed"
                 PROVE  store'.trees[home[m]][m] = "completed"
      BY <1>1 DEF CompletedIsStored
    <3>1. m \in Message /\ home[m] \in trees /\ home[m] # r /\ home[m] \in Message
      BY <1>1, <1>2 DEF TypeOK
    <3>2. state[m] = "completed"
      BY <1>4, <3>1
    <3>3. store.trees[home[m]][m] = "completed"
      BY <3>1, <3>2 DEF HandlerInv, StoreInv, CompletedIsStored
    <3> QED
      BY <1>5, <3>1, <3>3
  <2> QED
    BY <2>1, <2>2, <2>3, <2>4, <2>5 DEF StoreInv
<1>11. TaskInv'
  <2>1. Queued' /\ Working' /\ ActiveIsServed'
    BY <1>1, <1>2, <1>3, <1>4, CommandTasks DEF TypeOK
  <2>2. Orphans'
    <3> SUFFICES ASSUME NEW n \in Message, home[n] \notin trees' \union Ghosts',
                        task[n] = "running", sees[n] = TRUE
                 PROVE  cancelReq'[n] = TRUE
      BY <1>1 DEF Orphans
    <3>1. CASE home[n] = r
      <4>1. n \notin escaped'
        BY <1>1 DEF Ghosts
      <4> QED
        BY <1>1, <1>4, <3>1, <4>1 DEF Escaping
    <3>2. CASE home[n] # r
      BY <1>1, <1>4, <1>7, <3>2 DEF HandlerInv, TaskInv, Orphans
    <3> QED
      BY <3>1, <3>2
  <2> QED
    BY <2>1, <2>2 DEF TaskInv
<1>w. StoreMoves
  BY <1>5 DEF StoreMoves
<1> QED
  BY <1>w, <1>8, <1>9, <1>10, <1>11 DEF HandlerInv

\* Everything is deleted.
LEMMA AllDeletedOK ==
    ASSUME FileStore, HandlerInv, AllDeleted
    PROVE  HandlerInv' /\ StoreMoves
<1> DEFINE gone == {m \in inTree : home[m] \in trees}
<1>1. /\ store' = EmptyStore /\ disk' = EmptyStore
      /\ trees' = {} /\ where' = [id \in Ids |-> None]
      /\ cleared' = cleared \union gone /\ revived' = revived \ gone
      /\ overtaken' = overtaken \union {m \in inTree \ command.before : home[m] \in trees}
      /\ escaped' = escaped \union Escaping(trees, cancelReq)
      /\ command' = NoCommand
      /\ UNCHANGED <<pc, target, pending, home, parent, inTree, state, proc, told, task, cancelReq,
                     sees, up, interruptions, finished, lost>>
  BY DEF AllDeleted, Clears, ClearAll, FileStore, handlingVars, taskVars, countVars
<1>2. TypeOK /\ inTree \subseteq Message /\ trees \subseteq Message
  BY DEF HandlerInv, TypeOK
<1>3. /\ store' \in Stores
      /\ \A k, m \in Message : store'.trees[k][m] = "absent"
      /\ \A id \in Ids : store'.where[id] = None
  BY <1>1 DEF EmptyStore, NoTree, Stores, States
<1>4. /\ \A m \in Message : m \in gone <=> Known(m)
      /\ \A m : ~Known(m)'
      /\ \A m \in gone : pc[m] = "done"
  <2>1. (\A m \in Message : m \in gone <=> Known(m)) /\ \A m : ~Known(m)'
    BY <1>1, <1>2 DEF Known
  <2>2. \A m \in gone : m \in Message /\ home[m] # None
    BY <1>2, IdFacts
  <2> QED
    BY <2>1, <2>2 DEF HandlerInv, ChatInv, Mapped
<1>5. TypeOK'
  <2>1. /\ where' \in [Ids -> Message \union {None}] /\ trees' \subseteq Message
        /\ cleared' \subseteq Message /\ escaped' \subseteq Message /\ overtaken' \subseteq Message
        /\ revived' \subseteq Message /\ command'.kind # "delete_branch"
    BY <1>1, <1>2 DEF TypeOK, NoCommand, Escaping
  <2> QED
    BY <1>1, <1>2, <1>3, <2>1 DEF TypeOK, Stores
<1>6. ChatInv'
  <2>1. \A m \in Message : where'[m] = None
    BY <1>1, IdFacts
  <2>2. Mapped'
    BY <1>1, <1>4, <2>1 DEF HandlerInv, ChatInv, Mapped
  <2>3. Answers' /\ Remembered'
    BY <1>1, <1>4 DEF HandlerInv, ChatInv, Answers, Remembered
  <2>4. Withdrawn'
    BY <1>1, <1>4 DEF HandlerInv, ChatInv, Withdrawn
  <2> QED
    BY <2>2, <2>3, <2>4 DEF ChatInv
<1>7. StoreInv'
  <2>1. Filed'
    BY <1>3, IdFacts DEF Filed
  <2>2. \A m \in Message : home[m] # None => m \in cleared' \union lost
    BY <1>1, <1>4 DEF HandlerInv, ChatInv, Mapped, Remembered
  <2>3. Stored'
    BY <1>1, <2>2 DEF Stored
  <2>4. Erased'
    BY <1>3, <1>4, <1>5 DEF Erased, TypeOK
  <2>5. Unsaved'
    <3>1. \A n \in escaped' \union overtaken' : home'[n] # None
      BY <1>1, <1>2, IdFacts DEF Escaping, HandlerInv, StoreInv, Unsaved
    <3> QED
      BY <1>3, <3>1 DEF Unsaved
  <2>6. CompletedIsStored'
    BY <1>1 DEF CompletedIsStored
  <2> QED
    BY <2>1, <2>3, <2>4, <2>5, <2>6 DEF StoreInv
<1>8. TaskInv'
  <2>1. Shrinks
    BY <1>1, NothingShrinks
  <2>2. Queued' /\ Working' /\ ActiveIsServed'
    BY <1>1, <2>1, CommandTasks
  <2>3. Orphans'
    <3> SUFFICES ASSUME NEW n \in Message, home[n] \notin trees' \union Ghosts',
                        task[n] = "running", sees[n] = TRUE
                 PROVE  cancelReq[n] = TRUE
      BY <1>1 DEF Orphans
    <3>1. Ghosts \subseteq Ghosts' /\ n \notin escaped'
      BY <1>1 DEF Ghosts
    <3>2. home[n] \in trees => cancelReq[n] = TRUE
      BY <1>1, <1>2, <3>1 DEF Escaping, TypeOK
    <3> QED
      BY <3>1, <3>2 DEF HandlerInv, TaskInv, Orphans
  <2> QED
    BY <2>2, <2>3 DEF TaskInv
<1>w. StoreMoves
  BY <1>3 DEF StoreMoves
<1> QED
  BY <1>w, <1>5, <1>6, <1>7, <1>8 DEF HandlerInv

-----------------------------------------------------------------------------
(* The next start. *)

\* What the start makes of a state it reads.
CleanedUp(s) == IF s \in Active THEN "error" ELSE s

\* The repository is what the file has, and nothing that was active stays so.
LEMMA Reloaded ==
    ASSUME FileStore, HandlerInv, FileInv, Restart
    PROVE  /\ store' \in Stores /\ store'.where = disk.where
           /\ \A r, m \in Message : store'.trees[r][m] = CleanedUp(disk.trees[r][m])
           /\ trees' \subseteq Message /\ inTree' \subseteq Message
           /\ \A m \in Message :
                /\ m \in inTree' <=> home[m] \in Message /\ disk.trees[home[m]][m] # "absent"
                /\ m \in inTree' => home[m] \in trees'
                /\ state'[m] = IF m \in inTree' THEN CleanedUp(disk.trees[home[m]][m])
                               ELSE "absent"
                /\ m \in inTree' => where' = disk.where
           /\ state' \in [Message -> States]
           /\ where' \in {EmptyStore.where, disk.where}
           /\ \A r \in Message \ trees' : \A m \in Message : disk.trees[r][m] = "absent"
<1> DEFINE roots == StoredTrees(disk)
           nodes == StoredNodes(disk)
           read == StoredState(disk)
           stale == \E m \in Message : read[m] \in Active
           T == [r \in Message |-> IF r \in roots THEN Cleaned(disk.trees[r]) ELSE disk.trees[r]]
<1>1. /\ trees' = roots /\ inTree' = nodes /\ state' = Cleaned(read)
      /\ where' = IF roots = {} THEN EmptyStore.where ELSE disk.where
      /\ store' = IF ~stale THEN disk ELSE [disk EXCEPT !.trees = T]
  BY DEF Restart, Durable, FileStore
<1>2. disk \in Stores
  BY DEF HandlerInv, TypeOK, Stores
<1>3. \A r, m \in Message : disk.trees[r][m] # "absent" => home[m] = r
  BY DEF FileInv, OnDisk
<1>4. /\ roots \subseteq Message
      /\ \A r \in Message \ roots : \A m \in Message : disk.trees[r][m] = "absent"
      /\ \A r, m \in Message : disk.trees[r][m] # "absent" => r \in roots
  BY DEF StoredTrees, HasTree, NoTree
<1>5. /\ nodes \subseteq Message
      /\ \A m \in Message :
           m \in nodes <=> home[m] \in Message /\ disk.trees[home[m]][m] # "absent"
  BY <1>3, <1>4 DEF StoredNodes
<1>6. \A m \in Message : read[m] = IF m \in nodes THEN disk.trees[home[m]][m] ELSE "absent"
  BY DEF StoredState
<1>7. \A m \in Message : m \in nodes => home[m] \in roots
  BY <1>4, <1>5
<1> HIDE DEF roots, nodes, read
<1>8. /\ \A m \in Message : state'[m] = CleanedUp(read[m])
      /\ \A m \in Message : read[m] \in States
      /\ DOMAIN state' = Message /\ state' = [m \in Message |-> state'[m]]
  BY <1>1, <1>2, <1>5, <1>6 DEF Cleaned, CleanedUp, Stores, States
<1>9. CleanedUp("absent") = "absent" /\ \A s \in States : CleanedUp(s) \in States
  BY DEF CleanedUp, States, Active
<1>10. /\ store' \in Stores /\ store'.where = disk.where
       /\ \A r, m \in Message : store'.trees[r][m] = CleanedUp(disk.trees[r][m])
  <2>1. CASE stale
    <3>1. \A r, m \in Message : T[r][m] = CleanedUp(disk.trees[r][m])
      BY <1>4, <1>9 DEF Cleaned, CleanedUp
    <3>2. T \in [Message -> [Message -> States]]
      BY <1>2, <1>4 DEF Cleaned, Stores, States
    <3> HIDE DEF T, stale
    <3>3. store' = [disk EXCEPT !.trees = T]
      BY <1>1, <2>1
    <3> QED
      BY <1>2, <3>1, <3>2, <3>3 DEF Stores
  <2>2. CASE ~stale
    <3>1. store' = disk
      BY <1>1, <2>2
    <3>2. \A r, m \in Message : disk.trees[r][m] \notin Active
      BY <1>3, <1>5, <1>6, <2>2 DEF Active
    <3> QED
      BY <1>2, <3>1, <3>2 DEF CleanedUp
  <2> QED
    BY <2>1, <2>2
<1>11. state' \in [Message -> States]
  BY <1>8, <1>9
<1> QED
  BY <1>1, <1>4, <1>5, <1>6, <1>7, <1>8, <1>9, <1>10, <1>11

LEMMA RestartOK ==
    ASSUME FileStore, HandlerInv, FileInv, Restart
    PROVE  HandlerInv'
<1>1. /\ up' = TRUE /\ interruptions' = interruptions + 1 /\ command' = NoCommand
      /\ pc' = [m \in Message |-> IF pc[m] \in {"sending", "transcribing"} THEN "dropped" ELSE pc[m]]
      /\ target' = [m \in Message |-> IF pc[m] \in {"sending", "transcribing"}
                                      THEN None ELSE target[m]]
      /\ pending' = {}
      /\ proc' = [m \in Message |-> Idle]
      /\ task' = [m \in Message |-> "none"]
      /\ cancelReq' = [m \in Message |-> FALSE]
      /\ sees' = [m \in Message |-> FALSE]
      /\ lost' = lost \union {m \in Message : Has(store, m) /\ ~Has(disk, m)}
      /\ revived' = revived \union {m \in cleared : Has(disk, m) /\ ~Has(store, m)}
      /\ UNCHANGED <<home, parent, told, cleared, overtaken, escaped, disk, finished>>
  BY DEF Restart, Durable, FileStore, historyVars
<1>2. /\ store' \in Stores /\ store'.where = disk.where
      /\ \A r, m \in Message : store'.trees[r][m] = CleanedUp(disk.trees[r][m])
      /\ trees' \subseteq Message /\ inTree' \subseteq Message
      /\ \A m \in Message :
           /\ m \in inTree' <=> home[m] \in Message /\ disk.trees[home[m]][m] # "absent"
           /\ m \in inTree' => home[m] \in trees'
           /\ state'[m] = IF m \in inTree' THEN CleanedUp(disk.trees[home[m]][m])
                          ELSE "absent"
           /\ m \in inTree' => where' = disk.where
      /\ state' \in [Message -> States]
      /\ where' \in {EmptyStore.where, disk.where}
      /\ \A r \in Message \ trees' : \A m \in Message : disk.trees[r][m] = "absent"
  BY Reloaded
<1>3. \A s : CleanedUp(s) \notin Active /\ (CleanedUp(s) = "absent" <=> s = "absent")
  BY DEF CleanedUp, Active
<1>4. TypeOK /\ disk \in Stores
  BY DEF HandlerInv, TypeOK, Stores
<1>5. \A m \in Message : Known(m)' <=> m \in inTree'
  BY <1>1, <1>2 DEF Known
<1>6. TypeOK'
  <2>1. where' \in [Ids -> Message \union {None}]
    BY <1>2, <1>4 DEF EmptyStore, Stores
  <2>2. /\ pc' \in [Message -> {"none", "transcribing", "sending", "done", "refused", "dropped"}]
        /\ target' \in [Message -> Ids \union {None}]
    BY <1>1, <1>4 DEF TypeOK
  <2>3. proc' \in [Message -> Procs]
    BY <1>1 DEF Idle, Procs
  <2>4. /\ task' \in [Message -> Live \union {"none", "done"}]
        /\ cancelReq' \in [Message -> BOOLEAN] /\ sees' \in [Message -> BOOLEAN]
        /\ interruptions' \in Nat /\ command'.kind # "delete_branch"
        /\ lost' \subseteq Message /\ revived' \subseteq Message
    BY <1>1, <1>4 DEF TypeOK, NoCommand
  <2> QED
    BY <1>1, <1>2, <1>4, <2>1, <2>2, <2>3, <2>4 DEF TypeOK, Stores, Procs
<1>kept. ASSUME NEW m \in Message, home[m] # None, m \notin cleared, m \notin lost'
         PROVE  disk.where[Status(m)] = home[m] /\ disk.trees[home[m]][m] # "absent"
  <2>1. Has(store, m) /\ m \notin lost
    BY <1>1, <1>kept DEF HandlerInv, StoreInv, Stored, Has
  <2>2. Has(disk, m)
    BY <1>1, <1>kept, <2>1
  <2> QED
    BY <1>kept, <2>2 DEF Has, FileInv, OnDisk
<1>7. ChatInv'
  <2>1. /\ \A m \in Message : pc'[m] \in {pc[m], "dropped"}
        /\ \A m \in Message : pc'[m] # "sending" /\ (pc[m] = "done" => pc'[m] = "done")
        /\ \A m \in Message : pc'[m] \in {"none", "refused"} => target'[m] = target[m]
    BY <1>1
  <2>2. Mapped'
    <3>1. ASSUME NEW m \in Message, where'[m] # None PROVE where'[m] = home[m]
      <4>1. where'[m] = disk.where[m]
        BY <1>2, <3>1, IdFacts DEF EmptyStore
      <4> QED
        BY <3>1, <4>1 DEF FileInv, OnDisk
    <3>2. ASSUME NEW m \in Message, m \in inTree'
          PROVE  home[m] # None /\ state'[m] # "absent" /\ where'[m] = home[m]
      BY <1>2, <1>3, <3>2, IdFacts DEF FileInv, OnDisk
    <3> QED
      BY <1>1, <1>5, <2>1, <3>1, <3>2 DEF HandlerInv, ChatInv, Mapped
  <2>3. Answers'
    BY <1>1, <2>1 DEF HandlerInv, ChatInv, Answers
  <2>4. Remembered'
    <3> SUFFICES ASSUME NEW m \in Message, pc'[m] = "done", m \notin cleared, m \notin lost'
                 PROVE  Known(m)' /\ where'[Status(m)] = home[m]
      BY <1>1 DEF Remembered
    <3>1. home[m] # None /\ home[m] \in Message
      BY <1>1, <1>4, <2>1 DEF HandlerInv, ChatInv, Remembered, Mapped, Known, TypeOK
    <3>2. disk.where[Status(m)] = home[m] /\ disk.trees[home[m]][m] # "absent"
      BY <1>kept, <3>1
    <3> QED
      BY <1>2, <1>5, <3>1, <3>2
  <2>5. Withdrawn'
    BY <1>1, <2>1 DEF HandlerInv, ChatInv, Withdrawn
  <2> QED
    BY <2>2, <2>3, <2>4, <2>5 DEF ChatInv
<1>8. StoreInv'
  <2>1. Filed'
    BY <1>1, <1>2, <1>3 DEF FileInv, OnDisk, Filed
  <2>2. Stored'
    <3> SUFFICES ASSUME NEW m \in Message, home[m] # None, m \notin cleared, m \notin lost'
                 PROVE  store'.where[Status(m)] = home[m] /\ store'.trees[home[m]][m] # "absent"
      BY <1>1 DEF Stored
    <3>1. disk.where[Status(m)] = home[m] /\ disk.trees[home[m]][m] # "absent"
      BY <1>kept
    <3>2. home[m] \in Message
      BY <1>4 DEF TypeOK
    <3> QED
      BY <1>2, <1>3, <3>1, <3>2
  <2>3. Erased'
    <3> SUFFICES ASSUME NEW m \in cleared \ revived', home[m] \notin Ghosts
                 PROVE  ~Known(m)' /\ \A r \in Message : store'.trees[r][m] = "absent"
      BY <1>1 DEF Erased, Ghosts
    <3>1. m \in Message /\ m \notin revived /\ \A r \in Message : store.trees[r][m] = "absent"
      BY <1>1, <1>4 DEF HandlerInv, StoreInv, Erased, TypeOK
    <3>2. home[m] # None => home[m] \in Message
      BY <3>1, <1>4 DEF TypeOK
    <3>3. ~Has(disk, m)
      BY <1>1, <3>1, <3>2 DEF Has
    <3>4. \A r \in Message : disk.trees[r][m] = "absent"
      BY <3>1, <3>3, IdFacts DEF Has, FileInv, OnDisk
    <3> QED
      BY <1>2, <1>3, <1>5, <3>1, <3>4
  <2>4. Unsaved'
    BY <1>1, <1>2, <1>3 DEF HandlerInv, StoreInv, Unsaved
  <2>5. CompletedIsStored'
    BY <1>1, <1>2 DEF CompletedIsStored
  <2> QED
    BY <2>1, <2>2, <2>3, <2>4, <2>5 DEF StoreInv
<1>9. TaskInv'
  <2>1. Queued'
    <3>1. \A r \in Message : proc'[r].queue = <<>> /\ DOMAIN <<>> = {}
      BY <1>1 DEF Idle
    <3> QED
      BY <3>1 DEF Queued
  <2>2. \A m \in Message : task'[m] = "none" /\ told'[m] = told[m] /\ home'[m] = home[m]
    BY <1>1
  <2>3. Working' /\ Orphans'
    BY <2>2 DEF HandlerInv, TaskInv, Working, Orphans
  <2>4. ActiveIsServed'
    <3>1. \A m \in inTree' : state'[m] \notin Active
      BY <1>2, <1>3
    <3> QED
      BY <3>1 DEF ActiveIsServed
  <2> QED
    BY <2>1, <2>3, <2>4 DEF TaskInv
<1> QED
  BY <1>6, <1>7, <1>8, <1>9 DEF HandlerInv

-----------------------------------------------------------------------------
(* The task of a node. *)

\* A step that leaves the messages alone, and saves trees that are known or will
\* come back anyway.
LEMMA KeptChats ==
    ASSUME HandlerInv, KeepsChats, NEW R \in SUBSET Message, Wrote(R),
           R \subseteq trees \union Ghosts,
           \A m \in inTree : state'[m] # "absent",
           \A m \in inTree : state'[m] = "completed" => state[m] = "completed" \/ home[m] \in R
    PROVE  ChatInv' /\ StoreInv'
<1>1. /\ UNCHANGED <<pc, target, pending, trees, where, home, parent, inTree, cleared, overtaken,
                     escaped, lost, revived>>
      /\ UNCHANGED <<handlingVars, repositoryVars>>
  BY DEF KeepsChats, handlingVars, repositoryVars, historyVars, fileVars
<1>2. ChatInv'
  BY <1>1, ChatKept DEF HandlerInv
<1>3. /\ inTree' \subseteq inTree /\ cleared \subseteq cleared' /\ cleared' \subseteq Message
      /\ revived' \subseteq revived
      /\ \A m \in inTree \ inTree' : FALSE
      /\ \A m \in (cleared' \ revived') \ (cleared \ revived) : FALSE
  BY <1>1 DEF HandlerInv, TypeOK
<1>4. StoreInv'
  BY <1>1, <1>3, WrittenWell DEF HandlerInv
<1> QED
  BY <1>2, <1>4

\* The types of what a task changes.
TaskTypes ==
    /\ proc' \in [Message -> Procs]
    /\ task' \in [Message -> Live \union {"none", "done"}]
    /\ told' \in [Message -> BOOLEAN] /\ cancelReq' \in [Message -> BOOLEAN]
    /\ sees' \in [Message -> BOOLEAN]
    /\ state' \in [Message -> States]

LEMMA TaskTypeOK ==
    ASSUME TypeOK, KeepsChats, TaskTypes, store' \in Stores
    PROVE  TypeOK'
BY DEF TypeOK, KeepsChats, handlingVars, repositoryVars, historyVars, countVars, fileVars,
       TaskTypes, Procs, Stores

\* What a step of the task n leaves alone: the other tasks, and their nodes but
\* for those that it makes errors.
OthersKept(n) ==
    \A m \in Message \ {n} :
        /\ task'[m] = task[m] /\ told'[m] = told[m] /\ cancelReq'[m] = cancelReq[m]
        /\ sees'[m] = sees[m] /\ state'[m] \in {state[m], "error"}

\* Where the task n is after the step, and what becomes of its node.
MovedWell(n) ==
    /\ task'[n] \in {"running", "cancelling", "cleanup", "done"}
    /\ task'[n] \in {"running", "cancelling"} /\ Known(n) => sees'[n] = TRUE
    /\ task'[n] = "cleanup" /\ Known(n) /\ told'[n] = TRUE => state'[n] \notin Active
    /\ task'[n] = "running" /\ sees'[n] = TRUE /\ home[n] \notin trees \union Ghosts =>
         cancelReq'[n] = TRUE
    /\ task'[n] = "done" /\ Known(n) /\ state'[n] \in Active => told'[n] = FALSE

\* A step of a task that does not end with the next one.
LEMMA TaskMoves ==
    ASSUME HandlerInv, KeepsChats, UNCHANGED proc, NEW n \in Message, task[n] # "none",
           OthersKept(n), MovedWell(n)
    PROVE  TaskInv'
<1>1. UNCHANGED <<trees, home, inTree, overtaken, escaped>>
  BY DEF KeepsChats, repositoryVars, historyVars
<1>2. Ghosts' = Ghosts /\ \A m : Known(m)' <=> Known(m)
  BY <1>1 DEF Ghosts, Known
<1>3. home[n] # None /\ inTree \subseteq Message
  BY DEF HandlerInv, TypeOK, TaskInv, Working
<1>4. Queued'
  <2> SUFFICES ASSUME NEW r \in Message
               PROVE  /\ \A i \in DOMAIN proc[r].queue :
                           LET m == proc[r].queue[i]
                           IN  home[m] = r /\ task'[m] = "none" /\ told'[m] = FALSE
                      /\ \A i, j \in DOMAIN proc[r].queue :
                           proc[r].queue[i] = proc[r].queue[j] => i = j
    BY <1>1 DEF Queued
  <2> DEFINE q == proc[r].queue
  <2>1. /\ \A i \in DOMAIN q : home[q[i]] = r /\ task[q[i]] = "none" /\ told[q[i]] = FALSE
        /\ \A i, j \in DOMAIN q : q[i] = q[j] => i = j
    BY DEF HandlerInv, TaskInv, Queued
  <2>2. \A i \in DOMAIN q : q[i] \in Message
    BY ElementOfSeq, LenProperties DEF HandlerInv, TypeOK
  <2>3. \A i \in DOMAIN q : task'[q[i]] = "none" /\ told'[q[i]] = FALSE
    BY <2>1, <2>2 DEF OthersKept
  <2> HIDE DEF q
  <2> QED
    BY <2>1, <2>3 DEF q
<1>5. Working'
  <2> SUFFICES ASSUME NEW m \in Message
               PROVE  /\ task'[m] # "none" \/ told'[m] = TRUE => home[m] # None
                      /\ task'[m] = "scheduled" => told'[m] = FALSE
                      /\ task'[m] \in {"running", "cancelling"} /\ Known(m) => sees'[m] = TRUE
                      /\ task'[m] = "cleanup" /\ Known(m) /\ told'[m] = TRUE => state'[m] \notin Active
    BY <1>1, <1>2 DEF Working
  <2>1. CASE m = n
    BY <1>3, <2>1 DEF MovedWell
  <2>2. CASE m # n
    BY <2>2 DEF OthersKept, HandlerInv, TaskInv, Working, Active
  <2> QED
    BY <2>1, <2>2
<1>6. Orphans'
  BY <1>1, <1>2 DEF OthersKept, MovedWell, HandlerInv, TaskInv, Orphans
<1>7. ActiveIsServed'
  <2> SUFFICES ASSUME NEW m \in inTree, home[m] \in trees, state'[m] \in Active
               PROVE  task'[m] \in Live \/ m \in Range(proc[home[m]].queue)
                      \/ (task'[m] = "done" /\ ~told'[m])
    BY <1>1 DEF ActiveIsServed
  <2>1. CASE m = n
    BY <2>1 DEF MovedWell, Live, Known
  <2>2. CASE m # n
    <3>1. /\ task'[m] = task[m] /\ told'[m] = told[m] /\ state[m] \in Active
      BY <1>3, <2>2 DEF OthersKept, Active
    <3> QED
      BY <3>1 DEF HandlerInv, TaskInv, ActiveIsServed
  <2> QED
    BY <2>1, <2>2
<1> QED
  BY <1>4, <1>5, <1>6, <1>7 DEF TaskInv

\* All of it together, for a step that saves the trees R.
LEMMA TaskOK ==
    ASSUME HandlerInv, KeepsChats, TaskTypes, UNCHANGED proc, NEW n \in Message, task[n] # "none",
           OthersKept(n), MovedWell(n), NEW R \in SUBSET Message, Wrote(R),
           R \subseteq trees \union Ghosts,
           state'[n] # "absent" \/ state'[n] = state[n],
           state'[n] = "completed" /\ n \in inTree => state[n] = "completed" \/ home[n] \in R
    PROVE  HandlerInv' /\ StoreMoves
<1>1. TaskInv'
  BY TaskMoves
<1>2. \A m \in inTree : m \in Message /\ state[m] # "absent"
  BY DEF HandlerInv, TypeOK, ChatInv, Mapped
<1>3. \A m \in inTree : state'[m] # "absent"
  BY <1>2 DEF OthersKept
<1>4. \A m \in inTree : state'[m] = "completed" => state[m] = "completed" \/ home[m] \in R
  BY <1>2 DEF OthersKept
<1>5. ChatInv' /\ StoreInv'
  BY <1>3, <1>4, KeptChats
<1>6. TypeOK'
  BY TaskTypeOK DEF HandlerInv, Wrote
<1>w. StoreMoves
  BY WroteMoves
<1> QED
  BY <1>w, <1>1, <1>5, <1>6 DEF HandlerInv

\* A task runs for a node; a known node's task sees its tree, and a task that is
\* not cancelled has a tree that may be saved.
LEMMA RunningTask ==
    ASSUME HandlerInv, NEW n \in Message, task[n] \in Live
    PROVE  /\ home[n] \in Message /\ task[n] # "none"
           /\ Known(n) => TreeFor(n) # None /\ n \in inTree
           /\ TreeFor(n) # None => home[n] \in trees
           /\ task[n] \in {"running", "cancelling"} /\ Known(n) => sees[n] = TRUE
           /\ task[n] = "running" /\ sees[n] = TRUE /\ ~cancelReq[n] =>
                home[n] \in trees \union Ghosts
           /\ task[n] = "scheduled" => told[n] = FALSE
<1>1. home[n] \in Message /\ task[n] # "none"
  BY DEF HandlerInv, TypeOK, TaskInv, Working, Live
<1>2. Known(n) => TreeFor(n) # None /\ n \in inTree
  BY <1>1, IdFacts DEF HandlerInv, ChatInv, Mapped, Known, TreeFor
<1>3. TreeFor(n) # None => home[n] \in trees
  BY IdFacts DEF HandlerInv, ChatInv, Mapped, TreeFor, TypeOK
<1> QED
  BY <1>1, <1>2, <1>3 DEF HandlerInv, TaskInv, Working, Orphans

\* update_state, if the task has a tree.
LEMMA UpdatedEffect ==
    ASSUME TypeOK, NEW n \in Message, NEW s \in States, NEW st, st = Updated(n, s)
    PROVE  /\ st \in [Message -> States]
           /\ \A m \in Message \ {n} : st[m] = state[m]
           /\ st[n] = IF sees[n] /\ n \in inTree THEN s ELSE state[n]
BY DEF Updated, TypeOK

LEMMA StartOK ==
    ASSUME FileStore, HandlerInv, NEW n \in Message, Start(n)
    PROVE  HandlerInv' /\ StoreMoves
<1>1. /\ task[n] = "scheduled" /\ KeepsChats
      /\ task' = [task EXCEPT ![n] = "running"]
      /\ sees' = [sees EXCEPT ![n] = TreeFor(n) # None]
      /\ state' = IF TreeFor(n) # None /\ n \in inTree
                  THEN [state EXCEPT ![n] = "in_progress"] ELSE state
      /\ UNCHANGED <<told, cancelReq, proc, store>>
  BY DEF Start, At
<1>2. TypeOK /\ task[n] \in Live
  BY <1>1 DEF HandlerInv, Live
<1>3. Wrote({})
  BY <1>1, <1>2, WroteNothing
<1>4. TaskTypes
  BY <1>1, <1>2 DEF TypeOK, TaskTypes, Procs, Live, States, Active
<1>5. OthersKept(n)
  BY <1>1, <1>2 DEF TypeOK, OthersKept
<1>6. /\ task'[n] = "running" /\ sees'[n] = (TreeFor(n) # None)
      /\ state'[n] \in {state[n], "in_progress"}
  BY <1>1, <1>2 DEF TypeOK
<1>7. MovedWell(n)
  BY <1>2, <1>6, RunningTask DEF MovedWell
<1> QED
  BY <1>1, <1>2, <1>3, <1>4, <1>5, <1>6, <1>7, RunningTask, TaskOK

LEMMA DieUnstartedOK ==
    ASSUME FileStore, HandlerInv, NEW n \in Message, DieUnstarted(n)
    PROVE  HandlerInv' /\ StoreMoves
<1>1. /\ task[n] = "scheduled" /\ KeepsChats
      /\ task' = [task EXCEPT ![n] = "done"]
      /\ cancelReq' = [cancelReq EXCEPT ![n] = FALSE]
      /\ UNCHANGED <<state, told, sees, proc, store>>
  BY DEF DieUnstarted, At
<1>2. TypeOK /\ task[n] \in Live
  BY <1>1 DEF HandlerInv, Live
<1>3. Wrote({})
  BY <1>1, <1>2, WroteNothing
<1>4. TaskTypes
  BY <1>1, <1>2 DEF TypeOK, TaskTypes, Procs, Live
<1>5. OthersKept(n)
  BY <1>1, <1>2 DEF TypeOK, OthersKept
<1>6. task'[n] = "done" /\ state'[n] = state[n]
  BY <1>1, <1>2 DEF TypeOK
<1>7. MovedWell(n)
  BY <1>1, <1>2, <1>6, RunningTask DEF MovedWell
<1> QED
  BY <1>1, <1>2, <1>3, <1>4, <1>5, <1>6, <1>7, RunningTask, TaskOK

LEMMA SessionInfoOK ==
    ASSUME FileStore, HandlerInv, NEW n \in Message, SessionInfo(n)
    PROVE  HandlerInv' /\ StoreMoves
<1>1. /\ task[n] = "running" /\ ~cancelReq[n] /\ KeepsChats
      /\ told' = [told EXCEPT ![n] = TRUE]
      /\ state' = Updated(n, "in_progress")
      /\ store' = IF sees[n] THEN Save(store, home[n], ToDict(home[n], state', inTree)) ELSE store
      /\ UNCHANGED <<task, cancelReq, sees, proc>>
  BY DEF SessionInfo, Hears, At
<1>2. TypeOK /\ task[n] \in Live /\ inTree' = inTree
  BY <1>1 DEF HandlerInv, Live, KeepsChats, repositoryVars
<1>3. /\ state' \in [Message -> States]
      /\ \A m \in Message \ {n} : state'[m] = state[m]
      /\ state'[n] \in {state[n], "in_progress"}
  BY <1>1, <1>2, UpdatedEffect DEF States, Active
<1>4. TaskTypes
  BY <1>1, <1>2, <1>3 DEF TypeOK, TaskTypes, Procs, Live
<1>5. OthersKept(n)
  BY <1>1, <1>2, <1>3 DEF TypeOK, OthersKept
<1>6. MovedWell(n)
  BY <1>1, <1>2, RunningTask DEF MovedWell
<1> DEFINE R == IF sees[n] THEN {home[n]} ELSE {}
<1>7. R \in SUBSET Message /\ R \subseteq trees \union Ghosts
  <2>1. home[n] \in Message /\ (sees[n] = TRUE => home[n] \in trees \union Ghosts)
    BY <1>1, <1>2, RunningTask
  <2>2. sees[n] \in BOOLEAN
    BY <1>2 DEF TypeOK
  <2> QED
    BY <2>1, <2>2
<1>8. Wrote(R)
  <2>1. CASE sees[n]
    <3>1. home[n] \in Message /\ store' = Save(store, home[n], ToDict(home[n], state', inTree))
      BY <1>1, <1>2, <2>1, RunningTask
    <3> QED
      BY <1>2, <1>3, <2>1, <3>1, WroteTree
  <2>2. CASE ~sees[n]
    BY <1>1, <1>2, <2>2, WroteNothing
  <2> QED
    BY <2>1, <2>2
<1> HIDE DEF R
<1> QED
  BY <1>1, <1>2, <1>3, <1>4, <1>5, <1>6, <1>7, <1>8, RunningTask, TaskOK

LEMMA CompleteOK ==
    ASSUME FileStore, HandlerInv, NEW n \in Message, Complete(n)
    PROVE  HandlerInv' /\ StoreMoves
<1>1. /\ task[n] = "running" /\ ~cancelReq[n] /\ KeepsChats
      /\ task' = [task EXCEPT ![n] = "cleanup"]
      /\ state' = IF told[n] THEN Updated(n, "completed") ELSE state
      /\ store' = IF sees[n] /\ told[n]
                  THEN Save(store, home[n], ToDict(home[n], state', inTree)) ELSE store
      /\ UNCHANGED <<told, cancelReq, sees, proc>>
  BY DEF Complete, SavedAsDone, Hears, At
<1>2. TypeOK /\ task[n] \in Live /\ inTree' = inTree /\ told[n] \in BOOLEAN /\ sees[n] \in BOOLEAN
  BY <1>1 DEF HandlerInv, Live, KeepsChats, repositoryVars, TypeOK
<1>3. /\ state' \in [Message -> States]
      /\ \A m \in Message \ {n} : state'[m] = state[m]
      /\ state'[n] = IF told[n] /\ sees[n] /\ n \in inTree THEN "completed" ELSE state[n]
  <2>1. CASE told[n]
    BY <1>1, <1>2, <2>1, UpdatedEffect DEF States
  <2>2. CASE ~told[n]
    BY <1>1, <1>2, <2>2 DEF TypeOK
  <2> QED
    BY <2>1, <2>2
<1>4. TaskTypes
  BY <1>1, <1>2, <1>3 DEF TypeOK, TaskTypes, Procs, Live
<1>5. OthersKept(n)
  BY <1>1, <1>2, <1>3 DEF TypeOK, OthersKept
<1>6. task'[n] = "cleanup" /\ told'[n] = told[n]
  BY <1>1, <1>2 DEF TypeOK
<1>7. MovedWell(n)
  <2>1. Known(n) /\ told'[n] = TRUE => state'[n] = "completed"
    BY <1>1, <1>2, <1>3, <1>6, RunningTask
  <2> QED
    BY <1>6, <2>1 DEF MovedWell, Active
<1> DEFINE R == IF sees[n] /\ told[n] THEN {home[n]} ELSE {}
<1>8. R \in SUBSET Message /\ R \subseteq trees \union Ghosts
  <2>1. home[n] \in Message /\ (sees[n] = TRUE => home[n] \in trees \union Ghosts)
    BY <1>1, <1>2, RunningTask
  <2>2. sees[n] \in BOOLEAN
    BY <1>2 DEF TypeOK
  <2> QED
    BY <2>1, <2>2
<1>9. Wrote(R)
  <2>1. CASE sees[n] /\ told[n]
    <3>1. home[n] \in Message /\ store' = Save(store, home[n], ToDict(home[n], state', inTree))
      BY <1>1, <1>2, <2>1, RunningTask
    <3> QED
      BY <1>2, <1>3, <2>1, <3>1, WroteTree
  <2>2. CASE ~(sees[n] /\ told[n])
    BY <1>1, <1>2, <2>2, WroteNothing
  <2> QED
    BY <2>1, <2>2
<1>10. state'[n] = state[n] \/ (state'[n] = "completed" /\ home[n] \in R)
  BY <1>3
<1> HIDE DEF R
<1> QED
  BY <1>1, <1>2, <1>4, <1>5, <1>7, <1>8, <1>9, <1>10, RunningTask, TaskOK

\* The session limit, an error event, CancelledError and what follows it: the
\* node becomes an error, with nodes below it or alone, and nothing is saved.
LEMMA FailingOK ==
    ASSUME FileStore, HandlerInv, NEW n \in Message,
           SessionLimit(n) \/ ErrorEvent(n) \/ Cancelled(n) \/ CancelDone(n)
    PROVE  HandlerInv' /\ StoreMoves
<1>1. /\ KeepsChats /\ UNCHANGED <<told, sees, proc, store>>
      /\ task[n] \in {"running", "cancelling"}
  BY DEF SessionLimit, ErrorEvent, Cancelled, CancelDone, Hears, At
<1>2. TypeOK /\ task[n] \in Live
  BY <1>1 DEF HandlerInv, Live
<1>3. Wrote({})
  BY <1>1, <1>2, WroteNothing
<1>4. /\ \E t \in {"running", "cancelling", "cleanup"} : task' = [task EXCEPT ![n] = t]
      /\ cancelReq' \in {cancelReq, [cancelReq EXCEPT ![n] = FALSE]}
  BY DEF SessionLimit, ErrorEvent, Cancelled, CancelDone, Hears, At
<1>5. /\ state' \in [Message -> States]
      /\ \A m \in Message : state'[m] \in {state[m], "error"}
      /\ Known(n) /\ task'[n] = "cleanup" => state'[n] = "error"
  <2>1. CASE SessionLimit(n) \/ CancelDone(n)
    <3>1. state' = Updated(n, "error")
      BY <2>1 DEF SessionLimit, CancelDone
    <3>2. /\ state' \in [Message -> States]
          /\ \A m \in Message \ {n} : state'[m] = state[m]
          /\ state'[n] = IF sees[n] /\ n \in inTree THEN "error" ELSE state[n]
      BY <1>2, <3>1, UpdatedEffect DEF States
    <3> QED
      BY <1>1, <1>2, <3>2, RunningTask
  <2>2. CASE ErrorEvent(n)
    <3>1. state' = WithFailure(n)
      BY <2>2 DEF ErrorEvent
    <3>2. CASE ~sees[n] \/ TreeFor(n) = None \/ n \notin inTree
      <4>1. state' = state /\ ~Known(n)
        BY <1>1, <1>2, <3>1, <3>2, RunningTask DEF WithFailure
      <4> QED
        BY <1>2, <4>1 DEF TypeOK
    <3>3. CASE ~(~sees[n] \/ TreeFor(n) = None \/ n \notin inTree)
      <4> DEFINE S == {n} \union PendingChildren(n)
      <4>1. state' = Errors(S) /\ n \in S
        BY <3>1, <3>3 DEF WithFailure
      <4> HIDE DEF S
      <4> QED
        BY <1>2, <4>1, ErrorsEffect
    <3> QED
      BY <3>2, <3>3
  <2>3. CASE Cancelled(n)
    BY <1>2, <2>3 DEF Cancelled, TypeOK
  <2> QED
    BY <2>1, <2>2, <2>3
<1>6. /\ task'[n] \in {"running", "cancelling", "cleanup"} /\ sees'[n] = sees[n]
      /\ task'[n] = "running" => task[n] = "running" /\ ~cancelReq[n]
  BY <1>1, <1>2, <1>4 DEF TypeOK, SessionLimit, ErrorEvent, Cancelled, CancelDone, Hears, At
<1>7. TaskTypes
  <2>1. task' \in [Message -> Live \union {"none", "done"}]
    BY <1>2, <1>4 DEF TypeOK, Live
  <2>2. cancelReq' \in [Message -> BOOLEAN]
    BY <1>2, <1>4 DEF TypeOK
  <2> QED
    BY <1>1, <1>2, <1>5, <2>1, <2>2 DEF TypeOK, TaskTypes, Procs
<1>8. OthersKept(n)
  BY <1>1, <1>2, <1>4, <1>5 DEF TypeOK, OthersKept
<1>9. MovedWell(n)
  BY <1>1, <1>2, <1>5, <1>6, RunningTask DEF MovedWell, Active
<1>10. state'[n] \in {state[n], "error"} /\ {} \in SUBSET Message
  BY <1>5
<1> QED
  BY <1>1, <1>2, <1>3, <1>7, <1>8, <1>9, <1>10, RunningTask, TaskOK

\* _process_next: the task n is over, and the first node of the queue that is
\* still in the tree has its task next.
NextTaken(n, r) ==
    \/ /\ proc[r].queue = <<>> /\ proc'[r].queue = <<>>
       /\ task' = [task EXCEPT ![n] = "done"]
    \/ /\ proc[r].queue # <<>> /\ proc'[r].queue = Tail(proc[r].queue)
       /\ LET next == Head(proc[r].queue)
          IN  task' = IF next \in inTree
                      THEN [task EXCEPT ![n] = "done", ![next] = "scheduled"]
                      ELSE [task EXCEPT ![n] = "done"]

LEMMA ProcessNextShape ==
    ASSUME TypeOK, NEW n \in Message, home[n] \in Message, ProcessNext(n)
    PROVE  /\ proc' \in [Message -> Procs]
           /\ \A k \in Message \ {home[n]} : proc'[k] = proc[k]
           /\ NextTaken(n, home[n])
<1> DEFINE r == home[n]
           p == proc[r]
           next == Head(p.queue)
<1>1. proc \in [Message -> Procs] /\ p \in Procs /\ p.queue \in Seq(Message)
  BY DEF TypeOK, Procs
<1>2. CASE p.queue = <<>>
  <2> DEFINE z == [p EXCEPT !.busy = FALSE, !.current = None]
  <2>1. proc' = [proc EXCEPT ![r] = z] /\ task' = [task EXCEPT ![n] = "done"]
    BY <1>2 DEF ProcessNext
  <2>2. z \in Procs /\ z.queue = <<>>
    BY <1>1, <1>2 DEF Procs
  <2> HIDE DEF z
  <2>3. /\ proc' \in [Message -> Procs] /\ proc'[r].queue = <<>>
        /\ \A k \in Message \ {r} : proc'[k] = proc[k]
    BY <1>1, <2>1, <2>2
  <2> QED
    BY <1>2, <2>1, <2>3 DEF NextTaken
<1>3. CASE p.queue # <<>>
  <2> DEFINE q == [p EXCEPT !.busy = TRUE, !.current = next, !.queue = Tail(p.queue)]
             l == [q EXCEPT !.last = next]
  <2>1. next \in Message /\ Tail(p.queue) \in Seq(Message)
    BY <1>1, <1>3, HeadTailProperties
  <2>2. /\ task' = IF next \in inTree THEN [task EXCEPT ![n] = "done", ![next] = "scheduled"]
                   ELSE [task EXCEPT ![n] = "done"]
        /\ proc' \in {[proc EXCEPT ![r] = q], [proc EXCEPT ![r] = l]}
    BY <1>3 DEF ProcessNext
  <2> HIDE DEF next
  <2>3. q \in Procs /\ q.queue = Tail(p.queue)
    BY <1>1, <2>1 DEF Procs
  <2> HIDE DEF q
  <2>4. l \in Procs /\ l.queue = Tail(p.queue)
    BY <2>1, <2>3 DEF Procs
  <2> HIDE DEF l
  <2>5. /\ proc' \in [Message -> Procs] /\ proc'[r].queue = Tail(p.queue)
        /\ \A k \in Message \ {r} : proc'[k] = proc[k]
    BY <1>1, <2>2, <2>3, <2>4
  <2> QED
    BY <1>3, <2>2, <2>5 DEF NextTaken, next
<1> QED
  BY <1>2, <1>3

\* The task n ends, the nodes S leave the queues, and those still in their tree
\* get a task.
NextStarted(n, S) ==
    /\ task' \in [Message -> Live \union {"none", "done"}] /\ task'[n] = "done"
    /\ \A m \in S : home[m] # None /\ task[m] = "none" /\ told[m] = FALSE /\ m # n
    /\ \A m \in Message \ {n} :
         task'[m] = IF m \in S /\ m \in inTree THEN "scheduled" ELSE task[m]
    /\ Shrinks
    /\ \A k \in Message : \A i \in DOMAIN proc'[k].queue : proc'[k].queue[i] \notin S
    /\ \A k \in Message : \A m \in Range(proc[k].queue) :
         m \in S \/ m \in Range(proc'[k].queue)

LEMMA NextIsStarted ==
    ASSUME HandlerInv, NEW n \in Message, home[n] \in Message, task[n] # "none",
           \A k \in Message \ {home[n]} : proc'[k] = proc[k], NextTaken(n, home[n])
    PROVE  \E S \in SUBSET Message : NextStarted(n, S)
<1> DEFINE r == home[n]
           q == proc[r].queue
           z == proc'[r].queue
           next == Head(q)
<1>1. /\ q \in Seq(Message) /\ task \in [Message -> Live \union {"none", "done"}]
      /\ \A i \in DOMAIN q : home[q[i]] = r /\ task[q[i]] = "none" /\ told[q[i]] = FALSE
      /\ \A i, j \in DOMAIN q : q[i] = q[j] => i = j
  BY DEF HandlerInv, TypeOK, TaskInv, Queued
<1>2. CASE q = <<>>
  <2>1. z = q /\ task' = [task EXCEPT ![n] = "done"]
    BY <1>2 DEF NextTaken
  <2>2. \A k \in Message : proc'[k].queue = proc[k].queue
    BY <2>1
  <2>3. Shrinks
    BY <2>2, TakenFromItself DEF Shrinks
  <2>4. NextStarted(n, {})
    BY <1>1, <2>1, <2>2, <2>3 DEF NextStarted
  <2> QED
    BY <2>4
<1>3. CASE q # <<>>
  <2>1. z = Tail(q) /\ task' = IF next \in inTree THEN [task EXCEPT ![n] = "done", ![next] = "scheduled"]
                               ELSE [task EXCEPT ![n] = "done"]
    BY <1>3 DEF NextTaken
  <2>2. /\ Len(q) \in Nat /\ Len(q) # 0 /\ DOMAIN q = 1 .. Len(q)
        /\ next = q[1] /\ next \in Message
        /\ DOMAIN z = 1 .. Len(q) - 1
        /\ \A i \in DOMAIN z : z[i] = q[i + 1] /\ i + 1 \in DOMAIN q /\ i + 1 # 1
    <3>1. /\ next \in Message /\ z \in Seq(Message) /\ Len(z) = Len(q) - 1
          /\ \A i \in 1 .. Len(z) : z[i] = q[i + 1]
      <4>1. q \in Seq(Message) /\ q # <<>> /\ z = Tail(q) /\ next = Head(q)
        BY <1>1, <1>3, <2>1
      <4> HIDE DEF q, z, next
      <4> QED
        BY <4>1, HeadTailProperties
    <3>2. /\ Len(q) \in Nat /\ Len(q) # 0 /\ DOMAIN q = 1 .. Len(q) /\ next = q[1]
          /\ DOMAIN z = 1 .. Len(z)
      <4>1. q \in Seq(Message) /\ q # <<>> /\ z \in Seq(Message) /\ next = Head(q)
        BY <1>1, <1>3, <3>1
      <4> HIDE DEF q, z, next
      <4> QED
        BY <4>1, EmptySeq, LenProperties
    <3> HIDE DEF q, z, next
    <3> QED
      BY <3>1, <3>2
  <2>3. home[next] = r /\ task[next] = "none" /\ told[next] = FALSE /\ next # n
    <3>1. 1 \in DOMAIN q
      BY <2>2
    <3> QED
      BY <1>1, <2>2, <3>1
  <2> HIDE DEF next
  <2>4. \A i \in DOMAIN z : z[i] # next
    <3>1. 1 \in DOMAIN q
      BY <2>2
    <3> HIDE DEF q, z
    <3>2. SUFFICES ASSUME NEW i \in DOMAIN z, z[i] = next PROVE FALSE
      OBVIOUS
    <3>3. q[i + 1] = q[1] /\ i + 1 \in DOMAIN q /\ i + 1 # 1
      BY <2>2, <3>2
    <3> QED
      BY <1>1, <3>1, <3>3
  <2>5. TakenFrom(z, q)
    <3> HIDE DEF q, z
    <3> DEFINE f == [i \in DOMAIN z |-> i + 1]
    <3>1. f \in [DOMAIN z -> DOMAIN q]
      BY <2>2
    <3>2. /\ \A i \in DOMAIN z : z[i] = q[f[i]]
          /\ \A i, j \in DOMAIN z : f[i] = f[j] => i = j
      BY <2>2
    <3> HIDE DEF f
    <3> QED
      BY <3>1, <3>2 DEF TakenFrom
  <2>6. \A m \in Range(q) : m = next \/ m \in Range(z)
    <3> HIDE DEF q, z
    <3> SUFFICES ASSUME NEW j \in DOMAIN q, q[j] # next PROVE q[j] \in Range(z)
      BY DEF Range
    <3>1. j - 1 \in DOMAIN z /\ z[j - 1] = q[(j - 1) + 1] /\ (j - 1) + 1 = j
      BY <2>2
    <3>2. z[j - 1] = q[j]
      BY <3>1
    <3> QED
      BY <3>1, <3>2 DEF Range
  <2>7. Shrinks
    <3> SUFFICES ASSUME NEW k \in Message PROVE TakenFrom(proc'[k].queue, proc[k].queue)
      BY DEF Shrinks
    <3> QED
      BY <2>5, TakenFromItself
  <2>8. /\ \A k \in Message : \A i \in DOMAIN proc'[k].queue : proc'[k].queue[i] \notin {next}
        /\ \A k \in Message : \A m \in Range(proc[k].queue) :
             m \in {next} \/ m \in Range(proc'[k].queue)
    <3> SUFFICES ASSUME NEW k \in Message
                 PROVE  /\ \A i \in DOMAIN proc'[k].queue : proc'[k].queue[i] \notin {next}
                        /\ \A m \in Range(proc[k].queue) : m \in {next} \/ m \in Range(proc'[k].queue)
      OBVIOUS
    <3>1. CASE k = r
      BY <2>4, <2>6, <3>1
    <3>2. CASE k # r
      <4>1. proc'[k].queue = proc[k].queue
        BY <3>2
      <4>2. \A i \in DOMAIN proc[k].queue : home[proc[k].queue[i]] = k
        BY DEF HandlerInv, TaskInv, Queued
      <4>3. \A i \in DOMAIN proc[k].queue : proc[k].queue[i] # next
        BY <2>3, <3>2, <4>2
      <4> QED
        BY <4>1, <4>3
    <3> QED
      BY <3>1, <3>2
  <2>9. /\ task' \in [Message -> Live \union {"none", "done"}] /\ task'[n] = "done"
        /\ \A m \in Message \ {n} :
             task'[m] = IF m \in {next} /\ m \in inTree THEN "scheduled" ELSE task[m]
    <3> HIDE DEF q
    <3>1. CASE next \in inTree
      BY <1>1, <2>1, <2>2, <2>3, <3>1 DEF Live
    <3>2. CASE next \notin inTree
      BY <1>1, <2>1, <3>2 DEF Live
    <3> QED
      BY <3>1, <3>2
  <2>10. \A m \in {next} : home[m] # None /\ task[m] = "none" /\ told[m] = FALSE /\ m # n
    BY <2>3, IdFacts
  <2>11. NextStarted(n, {next})
    BY <2>7, <2>8, <2>9, <2>10 DEF NextStarted
  <2> QED
    BY <2>2, <2>11
<1> QED
  BY <1>2, <1>3

\* A task ends, and the next one starts.
LEMMA NextOK ==
    ASSUME HandlerInv, NEW n \in Message, Skip(n) \/ Release(n)
    PROVE  HandlerInv' /\ StoreMoves
<1>1. /\ KeepsChats /\ ProcessNext(n) /\ UNCHANGED <<state, told, sees, store>>
      /\ task[n] \in {"scheduled", "cleanup"}
      /\ task[n] = "scheduled" => state[n] = "error"
      /\ cancelReq' \in {cancelReq, [cancelReq EXCEPT ![n] = FALSE]}
  BY DEF Skip, Release, At
<1>2. TypeOK /\ task[n] \in Live /\ inTree \subseteq Message
  BY <1>1 DEF HandlerInv, TypeOK, Live
<1>3. home[n] \in Message /\ task[n] # "none"
  BY <1>2, RunningTask
<1>4. /\ proc' \in [Message -> Procs]
      /\ \A k \in Message \ {home[n]} : proc'[k] = proc[k]
      /\ NextTaken(n, home[n])
  BY <1>1, <1>2, <1>3, ProcessNextShape
<1>5. PICK S \in SUBSET Message : NextStarted(n, S)
  BY <1>3, <1>4, NextIsStarted
<1>6. /\ task' \in [Message -> Live \union {"none", "done"}] /\ task'[n] = "done"
      /\ \A m \in S : home[m] # None /\ task[m] = "none" /\ told[m] = FALSE /\ m # n
      /\ \A m \in Message \ {n} :
           task'[m] = IF m \in S /\ m \in inTree THEN "scheduled" ELSE task[m]
      /\ Shrinks
      /\ \A k \in Message : \A i \in DOMAIN proc'[k].queue : proc'[k].queue[i] \notin S
      /\ \A k \in Message : \A m \in Range(proc[k].queue) :
           m \in S \/ m \in Range(proc'[k].queue)
  BY <1>5 DEF NextStarted
<1>7. /\ cancelReq' \in [Message -> BOOLEAN]
      /\ \A m \in Message \ {n} : cancelReq'[m] = cancelReq[m]
  BY <1>1, <1>2 DEF TypeOK
<1>8. /\ UNCHANGED <<trees, home, inTree, overtaken, escaped>>
      /\ Ghosts' = Ghosts /\ \A m : Known(m)' <=> Known(m)
  BY <1>1 DEF KeepsChats, repositoryVars, historyVars, Ghosts, Known
<1>9. Queued'
  <2> SUFFICES ASSUME NEW r \in Message
               PROVE  /\ \A i \in DOMAIN proc'[r].queue :
                           LET m == proc'[r].queue[i]
                           IN  home'[m] = r /\ task'[m] = "none" /\ told'[m] = FALSE
                      /\ \A i, j \in DOMAIN proc'[r].queue :
                           proc'[r].queue[i] = proc'[r].queue[j] => i = j
    BY DEF Queued
  <2> DEFINE q == proc[r].queue
             z == proc'[r].queue
  <2>1. PICK f \in [DOMAIN z -> DOMAIN q] :
             /\ \A i \in DOMAIN z : z[i] = q[f[i]]
             /\ \A i, j \in DOMAIN z : f[i] = f[j] => i = j
    BY <1>6 DEF Shrinks, TakenFrom
  <2>2. /\ \A i \in DOMAIN q : home[q[i]] = r /\ task[q[i]] = "none" /\ told[q[i]] = FALSE
        /\ \A i, j \in DOMAIN q : q[i] = q[j] => i = j
    BY DEF HandlerInv, TaskInv, Queued
  <2>3. \A i \in DOMAIN z : z[i] \in Message /\ z[i] \notin S
    BY <1>4, <1>6, ElementOfSeq, LenProperties DEF Procs
  <2> HIDE DEF q, z
  <2>4. \A i \in DOMAIN z : home[z[i]] = r /\ task[z[i]] = "none" /\ told[z[i]] = FALSE
    BY <2>1, <2>2
  <2>5. \A i \in DOMAIN z : task'[z[i]] = "none"
    BY <1>3, <1>6, <2>3, <2>4
  <2>6. \A i, j \in DOMAIN z : z[i] = z[j] => i = j
    BY <2>1, <2>2
  <2>7. \A i \in DOMAIN z : home'[z[i]] = r /\ task'[z[i]] = "none" /\ told'[z[i]] = FALSE
    BY <1>1, <1>8, <2>4, <2>5
  <2> QED
    BY <2>6, <2>7 DEF z
<1>10. Working'
  <2> SUFFICES ASSUME NEW m \in Message
               PROVE  /\ task'[m] # "none" \/ told[m] = TRUE => home[m] # None
                      /\ task'[m] = "scheduled" => told[m] = FALSE
                      /\ task'[m] \in {"running", "cancelling"} /\ Known(m) => sees[m] = TRUE
                      /\ task'[m] = "cleanup" /\ Known(m) /\ told[m] = TRUE => state[m] \notin Active
    BY <1>1, <1>8 DEF Working
  <2>1. CASE m = n
    BY <1>3, <1>6, <2>1, IdFacts
  <2>2. CASE m # n /\ m \in S /\ m \in inTree
    BY <1>6, <2>2
  <2>3. CASE m # n /\ ~(m \in S /\ m \in inTree)
    BY <1>6, <2>3 DEF HandlerInv, TaskInv, Working
  <2> QED
    BY <2>1, <2>2, <2>3
<1>11. Orphans'
  <2> SUFFICES ASSUME NEW m \in Message, home[m] \notin trees \union Ghosts,
                      task'[m] = "running", sees[m] = TRUE
               PROVE  cancelReq'[m] = TRUE
    BY <1>1, <1>8 DEF Orphans
  <2>1. m # n /\ task[m] = "running"
    BY <1>6
  <2> QED
    BY <1>7, <2>1 DEF HandlerInv, TaskInv, Orphans
<1>12. ActiveIsServed'
  <2> SUFFICES ASSUME NEW m \in inTree, home[m] \in trees, state[m] \in Active
               PROVE  task'[m] \in Live \/ m \in Range(proc'[home[m]].queue)
                      \/ (task'[m] = "done" /\ ~told[m])
    BY <1>1, <1>8 DEF ActiveIsServed
  <2>0. m \in Message /\ home[m] \in Message
    BY <1>2 DEF TypeOK
  <2>1. CASE m = n
    <3>1. told[n] \in BOOLEAN /\ (Known(n) /\ told[n] = TRUE /\ task[n] = "cleanup" => state[n] \notin Active)
      BY <1>2 DEF HandlerInv, TypeOK, TaskInv, Working
    <3>2. told[n] = FALSE
      BY <1>1, <2>1, <3>1 DEF Active, Known
    <3> QED
      BY <1>6, <2>1, <3>2
  <2>2. CASE m # n
    <3>1. \/ task[m] \in Live \/ m \in Range(proc[home[m]].queue)
          \/ task[m] = "done" /\ ~told[m]
      BY DEF HandlerInv, TaskInv, ActiveIsServed
    <3>2. task'[m] = "scheduled" \/ (task'[m] = task[m] /\ m \notin S)
      BY <1>6, <2>0, <2>2
    <3> QED
      BY <1>6, <2>0, <3>1, <3>2 DEF Live
  <2> QED
    BY <2>1, <2>2
<1>13. TaskInv'
  BY <1>9, <1>10, <1>11, <1>12 DEF TaskInv
<1>14. ChatInv' /\ StoreInv'
  <2>1. Wrote({})
    BY <1>1, <1>2, WroteNothing
  <2>2. \A m \in inTree : state'[m] # "absent"
    BY <1>1, <1>2 DEF HandlerInv, ChatInv, Mapped
  <2> QED
    BY <1>1, <2>1, <2>2, KeptChats
<1>15. TypeOK'
  <2>1. TaskTypes
    BY <1>1, <1>2, <1>4, <1>6, <1>7 DEF TypeOK, TaskTypes
  <2>2. store' \in Stores
    BY <1>1, <1>2 DEF TypeOK, Stores
  <2> QED
    BY <1>1, <1>2, <2>1, <2>2, TaskTypeOK
<1>w. StoreMoves
  BY <1>1, StoreStays
<1> QED
  BY <1>w, <1>13, <1>14, <1>15 DEF HandlerInv

-----------------------------------------------------------------------------
(* What the file has. *)

\* A step of the program between two starts: a node stays in its tree or leaves
\* it, and one that is COMPLETED stays so; the file is as it was, or empty.
NodesMove ==
    /\ disk' \in {disk, EmptyStore} /\ finished' = finished /\ lost' = lost
    /\ cleared \subseteq cleared'
    /\ \A m \in Message :
         /\ home[m] # None => home'[m] = home[m]
         /\ m \in inTree' => m \in inTree \/ home[m] = None
         /\ told[m] = TRUE => told'[m] = TRUE
         /\ state[m] = "completed" => state'[m] = "completed"
         /\ state'[m] = "completed" =>
              told'[m] = TRUE /\ task'[m] \notin {"running", "cancelling"}

\* What is true of a COMPLETED node of the file stays true in such a step.
LEMMA FileKept ==
    ASSUME HandlerInv, HandlerInv', FileInv, StoreMoves, NodesMove
    PROVE  FileInv'
<1>1. /\ lost \subseteq Message /\ finished \subseteq Message
      /\ \A m \in Message : home[m] \in Message \union {None}
  BY DEF HandlerInv, TypeOK
<1>2. \A m \in Message : home[m] # None => home'[m] = home[m] /\ home[m] \in Message
  BY <1>1 DEF NodesMove
<1>3. /\ \A r, m \in Message : disk'.trees[r][m] \in {disk.trees[r][m], "absent"}
      /\ \A m \in Message : disk'.where[m] # None => disk'.where[m] = disk.where[m]
      /\ \A r, m \in Message : disk'.trees[r][m] # "absent" => disk' = disk
  BY IdFacts DEF NodesMove, EmptyStore, NoTree
<1>4. OnDisk'
  <2> SUFFICES ASSUME NEW m \in Message
               PROVE  /\ disk'.where[m] # None => disk'.where[m] = home'[m]
                      /\ \A r \in Message :
                           disk'.trees[r][m] # "absent" => home'[m] = r /\ disk'.where[m] = r
                      /\ Has(disk, m)' /\ m \notin cleared' => disk'.where[Status(m)] = home'[m]
    BY DEF OnDisk
  <2>1. disk'.where[m] # None => disk'.where[m] = home'[m]
    BY <1>2, <1>3 DEF FileInv, OnDisk
  <2>2. ASSUME NEW r \in Message, disk'.trees[r][m] # "absent"
        PROVE  disk' = disk /\ home[m] = r /\ home'[m] = r /\ disk.where[m] = r
    BY <1>2, <1>3, <2>2, IdFacts DEF FileInv, OnDisk
  <2>3. ASSUME Has(disk, m)', m \notin cleared'
        PROVE  disk'.where[Status(m)] = home'[m]
    <3>1. home'[m] # None /\ disk'.trees[home'[m]][m] # "absent"
      BY <2>3 DEF Has
    <3>2. CASE home[m] = None
      <4>1. m \in Message /\ \A r \in Message : disk.trees[r][m] = "absent"
        BY <3>2, IdFacts DEF FileInv, OnDisk
      <4>2. home'[m] \in Message \union {None}
        BY DEF HandlerInv, TypeOK
      <4> QED
        BY <1>3, <3>1, <4>1, <4>2
    <3>3. CASE home[m] # None
      <4>1. home[m] \in Message /\ home'[m] = home[m]
        BY <1>2, <3>3
      <4>2. disk' = disk /\ Has(disk, m)
        BY <2>2, <3>1, <3>3, <4>1 DEF Has
      <4> QED
        BY <2>3, <4>1, <4>2 DEF NodesMove, FileInv, OnDisk
    <3> QED
      BY <3>2, <3>3
  <2> QED
    BY <2>1, <2>2, <2>3
<1>5. Away'
  <2> SUFFICES ASSUME NEW m \in lost
               PROVE  home'[m] # None /\ m \notin inTree' /\ ~Has(store, m)' /\ ~Has(disk, m)'
    BY DEF Away, NodesMove
  <2>1. /\ m \in Message /\ home[m] \in Message /\ home'[m] = home[m] /\ home[m] # None
        /\ m \notin inTree /\ store.trees[home[m]][m] = "absent" /\ disk.trees[home[m]][m] = "absent"
    BY <1>1, <1>2 DEF FileInv, Away, Has
  <2>2. m \notin inTree'
    BY <2>1 DEF NodesMove
  <2>3. store'.trees[home[m]][m] = "absent"
    BY <2>1, <2>2 DEF StoreMoves
  <2>4. disk'.trees[home[m]][m] = "absent"
    BY <1>3, <2>1
  <2> QED
    BY <2>1, <2>2, <2>3, <2>4 DEF Has
<1>6. Settled'
  <2> SUFFICES ASSUME NEW m \in Message
               PROVE  /\ state'[m] = "completed" =>
                           told'[m] = TRUE /\ task'[m] \notin {"running", "cancelling"}
                      /\ \A r \in Message :
                           "completed" \in {store'.trees[r][m], disk'.trees[r][m]} => told'[m] = TRUE
    BY DEF Settled
  <2>1. \A r \in Message : store'.trees[r][m] = "completed" => told'[m] = TRUE
    BY DEF StoreMoves, NodesMove, FileInv, Settled
  <2>2. \A r \in Message : disk'.trees[r][m] = "completed" => told'[m] = TRUE
    BY <1>3 DEF NodesMove, FileInv, Settled
  <2> QED
    BY <2>1, <2>2 DEF NodesMove
<1>7. Survives'
  <2> SUFFICES ASSUME NEW m \in finished
               PROVE  /\ told'[m] = TRUE
                      /\ m \in inTree' => state'[m] = "completed"
                      /\ \A r \in Message :
                           {store'.trees[r][m], disk'.trees[r][m]} \subseteq {"absent", "completed"}
    BY DEF Survives, NodesMove
  <2>1. /\ m \in Message /\ told[m] = TRUE /\ home[m] # None
        /\ m \in inTree => state[m] = "completed"
        /\ \A r \in Message : store.trees[r][m] \in {"absent", "completed"}
                              /\ disk.trees[r][m] \in {"absent", "completed"}
    BY <1>1 DEF FileInv, Survives, HandlerInv, TaskInv, Working
  <2>2. m \in inTree' => state'[m] = "completed"
    BY <2>1 DEF NodesMove
  <2>3. \A r \in Message : store'.trees[r][m] \in {"absent", "completed"}
    BY <2>1, <2>2 DEF StoreMoves
  <2>4. \A r \in Message : disk'.trees[r][m] \in {"absent", "completed"}
    BY <1>3, <2>1
  <2> QED
    BY <2>1, <2>2, <2>3, <2>4 DEF NodesMove
<1> QED
  BY <1>4, <1>5, <1>6, <1>7 DEF FileInv

\* A step that leaves the repository and the file alone.
LEMMA NodesStay ==
    ASSUME UNCHANGED <<home, inTree, disk, finished, lost>>, cleared \subseteq cleared',
           \A m \in Message : /\ told[m] = TRUE => told'[m] = TRUE
                              /\ state[m] = "completed" => state'[m] = "completed"
                              /\ state'[m] = "completed" =>
                                   told'[m] = TRUE /\ task'[m] \notin {"running", "cancelling"}
    PROVE  NodesMove
BY DEF NodesMove

\* The handling of a message.
LEMMA HandleMoves ==
    ASSUME FileStore, HandlerInv, FileInv, NEW m \in Message, Handle(m)
    PROVE  NodesMove
<1>1. CASE HandlingOf(m)
  <2>1. UNCHANGED <<home, inTree, state, told, task, cleared, disk, finished, lost>>
    BY <1>1, HandlingShape DEF KeepsTrees, repositoryVars, taskVars, historyVars, fileVars
  <2> QED
    BY <2>1, NodesStay DEF FileInv, Settled
<1>2. CASE NewConversation(m) \/ Continue(m)
  <2>1. PICK r \in Message : NewNode(m, r) /\ Enqueue(m, r)
    BY <1>2, AcceptShape
  <2>2. /\ UNCHANGED <<told, cleared, disk, finished, lost>>
        /\ home[m] = None /\ told[m] = FALSE
    BY <2>1 DEF NewNode, historyVars, fileVars
  <2>3. /\ state'[m] = "pending"
        /\ \A k \in Message \ {m} : home'[k] = home[k] /\ state'[k] = state[k]
                                    /\ (k \in inTree' <=> k \in inTree)
    BY <2>1, NewNodeFacts
  <2>4. \A k \in Message : task'[k] \in {task[k], "scheduled"}
    BY <2>1 DEF Enqueue, HandlerInv, TypeOK
  <2>5. state[m] # "completed"
    BY <2>2 DEF FileInv, Settled
  <2> QED
    BY <2>2, <2>3, <2>4, <2>5 DEF NodesMove, FileInv, Settled
<1> QED
  BY <1>1, <1>2 DEF Handle, HandlingOf

\* A node in a queue is not COMPLETED: it has no session yet.
LEMMA QueuedIsNotDone ==
    ASSUME HandlerInv, FileInv, NEW r \in Message, NEW m \in Range(proc[r].queue)
    PROVE  state[m] # "completed" \/ m \notin Message
BY DEF Range, HandlerInv, TaskInv, Queued, FileInv, Settled

\* cancel_tree.
LEMMA CancelTreesMoves ==
    ASSUME HandlerInv, FileInv, NEW R \in SUBSET Message, CancelTrees(R)
    PROVE  \A m \in Message : state'[m] = "completed" <=> state[m] = "completed"
<1> DEFINE S == {n \in inTree : home[n] \in R /\
                   (state[n] \in Active \/ n \in Range(proc[home[n]].queue))}
<1>1. state' = Errors(S)
  BY DEF CancelTrees, CancelledState
<1>2. \A m \in Message : m \in S => state[m] # "completed"
  BY QueuedIsNotDone DEF Active
<1> HIDE DEF S
<1> QED
  BY <1>1, <1>2, ErrorsEffect DEF HandlerInv

\* /stop and /clear.
LEMMA CommandMoves ==
    ASSUME FileStore, HandlerInv, FileInv, UserCommand
    PROVE  NodesMove
<1>t. TypeOK
  BY DEF HandlerInv
<1>k. KeepsRepository => UNCHANGED <<home, inTree, told, task, cleared, disk, finished, lost>>
  BY DEF KeepsRepository, repositoryVars, historyVars, fileVars
<1>s. ASSUME UNCHANGED <<home, inTree, told, task, disk, finished, lost>>, cleared \subseteq cleared',
             \A m \in Message : state'[m] = "completed" <=> state[m] = "completed"
      PROVE  NodesMove
  BY <1>s, NodesStay DEF FileInv, Settled
<1>1. ASSUME NEW kind \in {"stop_all", "clear_all"}, StopAll(kind) PROVE NodesMove
  <2>1. KeepsRepository /\ CancelTrees(trees) /\ trees \in SUBSET Message
    BY <1>1, <1>t DEF StopAll, TypeOK
  <2> QED
    BY <2>1, <1>k, <1>s, CancelTreesMoves
<1>2. CASE SessionsStopped
  <2>1. KeepsRepository /\ UNCHANGED state
    BY <1>2 DEF SessionsStopped
  <2> QED
    BY <2>1, <1>k, <1>s
<1>3. ASSUME NEW S, KeepsRepository, state' = Errors(S), \A m \in S : state[m] \in Active
      PROVE  NodesMove
  <2>1. \A m \in Message : state'[m] = "completed" <=> state[m] = "completed"
    BY <1>3, <1>t, ErrorsEffect DEF Active
  <2> QED
    BY <1>3, <1>k, <1>s, <2>1
<1>4. ASSUME NEW id \in Answerable, Stop(id) PROVE NodesMove
  BY <1>3, <1>4 DEF Stop
<1>5. ASSUME NEW id \in Answerable, ClearBranch(id) PROVE NodesMove
  BY <1>3, <1>5 DEF ClearBranch
<1>6. ASSUME NEW id \in Answerable, ClearVoice(id) PROVE NodesMove
  <2>1. UNCHANGED <<home, inTree, state, told, task, disk, finished, lost>>
        /\ cleared \subseteq cleared'
    BY <1>6 DEF ClearVoice, repositoryVars, taskVars, fileVars
  <2> QED
    BY <2>1, <1>s
<1>7. CASE BranchDeleted
  <2>1. UNCHANGED <<home, state, told, task, disk, finished, lost>>
        /\ cleared \subseteq cleared' /\ inTree' \subseteq inTree
    BY <1>7 DEF BranchDeleted, Clears, taskVars
  <2> QED
    BY <2>1 DEF NodesMove, FileInv, Settled
<1>8. CASE TreeDeleted
  <2>1. /\ UNCHANGED <<home, inTree, told, task, disk, finished, lost>>
        /\ cleared \subseteq cleared' /\ CancelTrees({command.branch})
        /\ command.kind = "delete_branch"
    BY <1>8 DEF TreeDeleted, Clears
  <2>2. {command.branch} \in SUBSET Message
    BY <2>1, <1>t DEF TypeOK
  <2> QED
    BY <2>1, <2>2, <1>s, CancelTreesMoves
<1>9. CASE AllDeleted
  <2>1. /\ UNCHANGED <<home, inTree, state, told, task, finished, lost>>
        /\ cleared \subseteq cleared' /\ disk' = EmptyStore
    BY <1>9 DEF AllDeleted, Clears, ClearAll, FileStore, taskVars
  <2> QED
    BY <2>1 DEF NodesMove, FileInv, Settled
<1> QED
  BY <1>1, <1>2, <1>4, <1>5, <1>6, <1>7, <1>8, <1>9 DEF UserCommand

\* The task of a node: only a "complete" event of a session makes it COMPLETED.
LEMMA TaskStepMoves ==
    ASSUME FileStore, HandlerInv, FileInv, NEW n \in Message, TaskStep(n)
    PROVE  NodesMove
<1>t. TypeOK
  BY DEF HandlerInv
<1>k. KeepsChats => UNCHANGED <<home, inTree, cleared, disk, finished, lost>>
  BY DEF KeepsChats, repositoryVars, historyVars, fileVars
<1>s. \A m \in Message : state[m] = "completed" =>
        told[m] = TRUE /\ task[m] \notin {"scheduled", "running", "cancelling"}
  BY DEF FileInv, Settled, HandlerInv, TaskInv, Working
<1>1. CASE Start(n)
  <2>1. /\ task[n] = "scheduled" /\ KeepsChats /\ UNCHANGED told
        /\ task' = [task EXCEPT ![n] = "running"]
        /\ state' \in {state, [state EXCEPT ![n] = "in_progress"]}
    BY <1>1 DEF Start, At
  <2>2. \A m \in Message : (state'[m] = "completed" <=> state[m] = "completed")
                           /\ (m # n => task'[m] = task[m])
    BY <2>1, <1>t, <1>s DEF TypeOK
  <2> QED
    BY <2>1, <2>2, <1>k, <1>s, NodesStay
<1>2. CASE Skip(n) \/ Release(n)
  <2>1. /\ KeepsChats /\ ProcessNext(n) /\ UNCHANGED <<state, told>>
        /\ task[n] \in {"scheduled", "cleanup"}
    BY <1>2 DEF Skip, Release, At
  <2>2. home[n] \in Message
    BY <2>1, RunningTask DEF Live
  <2>3. NextTaken(n, home[n])
    BY <2>1, <2>2, <1>t, ProcessNextShape
  <2>4. \A m \in Message : task'[m] \in {task[m], "done", "scheduled"}
    BY <2>3, <1>t DEF NextTaken, TypeOK
  <2> QED
    BY <2>1, <2>4, <1>k, <1>s, NodesStay
<1>3. CASE DieUnstarted(n)
  <2>1. /\ KeepsChats /\ UNCHANGED <<state, told>> /\ task' = [task EXCEPT ![n] = "done"]
    BY <1>3 DEF DieUnstarted
  <2>2. \A m \in Message : task'[m] \in {task[m], "done"}
    BY <2>1, <1>t DEF TypeOK
  <2> QED
    BY <2>1, <2>2, <1>k, <1>s, NodesStay
<1>4. CASE SessionLimit(n) \/ ErrorEvent(n) \/ Cancelled(n) \/ CancelDone(n)
  <2>1. /\ KeepsChats /\ UNCHANGED told /\ task[n] \in {"running", "cancelling"}
        /\ \E t \in {"running", "cancelling", "cleanup"} : task' = [task EXCEPT ![n] = t]
    BY <1>4 DEF SessionLimit, ErrorEvent, Cancelled, CancelDone, Hears, At
  <2>2. \A m \in Message : m # n => task'[m] = task[m]
    BY <2>1, <1>t DEF TypeOK
  <2>3. state[n] # "completed"
    BY <2>1, <1>s
  <2>4. \A m \in Message : state'[m] = "completed" <=> state[m] = "completed"
    <3>1. CASE SessionLimit(n) \/ CancelDone(n)
      <4>1. state' = Updated(n, "error")
        BY <3>1 DEF SessionLimit, CancelDone
      <4> QED
        BY <4>1, <1>t, <2>3, UpdatedEffect DEF States
    <3>2. CASE ErrorEvent(n)
      <4>1. state' = WithFailure(n)
        BY <3>2 DEF ErrorEvent
      <4> DEFINE S == {n} \union PendingChildren(n)
      <4>2. \A m \in S : state[m] # "completed"
        BY <2>3 DEF PendingChildren
      <4>3. state' \in {state, Errors(S)}
        BY <4>1 DEF WithFailure
      <4> HIDE DEF S
      <4> QED
        BY <4>2, <4>3, <1>t, ErrorsEffect
    <3>3. CASE Cancelled(n)
      BY <3>3 DEF Cancelled
    <3> QED
      BY <1>4, <3>1, <3>2, <3>3
  <2> QED
    BY <2>1, <2>2, <2>3, <2>4, <1>k, <1>s, NodesStay
<1>5. CASE SessionInfo(n)
  <2>1. /\ KeepsChats /\ UNCHANGED task /\ task[n] = "running"
        /\ told' = [told EXCEPT ![n] = TRUE] /\ state' = Updated(n, "in_progress")
    BY <1>5 DEF SessionInfo, Hears, At
  <2>2. \A m \in Message : (state'[m] = "completed" <=> state[m] = "completed")
                           /\ (told[m] = TRUE => told'[m] = TRUE)
    BY <2>1, <1>t, <1>s, UpdatedEffect DEF TypeOK, States, Active
  <2> QED
    BY <2>1, <2>2, <1>k, <1>s, NodesStay
<1>6. CASE Complete(n)
  <2>1. /\ KeepsChats /\ UNCHANGED told /\ task[n] = "running"
        /\ task' = [task EXCEPT ![n] = "cleanup"]
        /\ state' = IF told[n] THEN Updated(n, "completed") ELSE state
    BY <1>6 DEF Complete, Hears, At
  <2>2. told[n] \in BOOLEAN /\ task'[n] = "cleanup"
        /\ \A m \in Message \ {n} : task'[m] = task[m]
    BY <2>1, <1>t DEF TypeOK
  <2>3. \A m \in Message :
          /\ state[m] = "completed" => state'[m] = "completed"
          /\ state'[m] = "completed" => state[m] = "completed" \/ (m = n /\ told[n] = TRUE)
    <3>1. CASE told[n]
      BY <2>1, <3>1, <1>t, <1>s, UpdatedEffect DEF States
    <3>2. CASE ~told[n]
      BY <2>1, <3>2
    <3> QED
      BY <3>1, <3>2
  <2> QED
    BY <2>1, <2>2, <2>3, <1>k, <1>s, NodesStay
<1> QED
  BY <1>1, <1>2, <1>3, <1>4, <1>5, <1>6 DEF TaskStep

-----------------------------------------------------------------------------
(* The theorems. *)

LEMMA HandlerInit ==
    ASSUME Init
    PROVE  HandlerInv
<1>1. TypeOK
  BY DEF Init, TypeOK, States, Active, Idle, EmptyStore, NoTree
<1>2. ChatInv
  <2>1. /\ \A m \in Message : pc[m] = "none" /\ target[m] = None /\ home[m] = None
        /\ \A m \in Message : where[m] = None
        /\ inTree = {} /\ pending = {} /\ cleared = {}
    BY IdFacts DEF Init
  <2> QED
    BY <2>1 DEF ChatInv, Mapped, Answers, Remembered, Withdrawn, Known
<1>3. StoreInv
  BY IdFacts DEF Init, StoreInv, Filed, Stored, Erased, Unsaved, CompletedIsStored, EmptyStore, NoTree
<1>4. TaskInv
  <2>1. \A r \in Message : proc[r].queue = <<>> /\ DOMAIN <<>> = {}
    BY DEF Init, Idle
  <2>2. Queued
    BY <2>1 DEF Queued
  <2> QED
    BY <2>2 DEF Init, TaskInv, Working, Orphans, ActiveIsServed
<1> QED
  BY <1>1, <1>2, <1>3, <1>4 DEF HandlerInv

LEMMA HandlerStutters ==
    ASSUME HandlerInv, UNCHANGED vars
    PROVE  HandlerInv'
<1>1. UNCHANGED <<up, pc, target, pending, trees, where, home, parent, inTree, state, told, proc,
                  task, cancelReq, sees, store, command, interruptions, cleared, overtaken, escaped,
                  disk, finished, lost, revived>>
  BY DEF vars, handlingVars, repositoryVars, taskVars, historyVars, countVars, fileVars
<1>2. TypeOK'
  BY <1>1 DEF HandlerInv, TypeOK
<1>3. ChatInv'
  BY <1>1 DEF HandlerInv, ChatInv, Mapped, Answers, Remembered, Withdrawn, Known
<1>4. StoreInv'
  BY <1>1 DEF HandlerInv, StoreInv, Filed, Stored, Erased, Unsaved, CompletedIsStored, Known, Ghosts
<1>5. TaskInv'
  BY <1>1 DEF HandlerInv, TaskInv, Queued, Working, Orphans, ActiveIsServed, Known, Ghosts
<1> QED
  BY <1>2, <1>3, <1>4, <1>5 DEF HandlerInv

\* The file is written: it has what the store has.
LEMMA SavedOK ==
    ASSUME FileStore, HandlerInv, FileInv, Saved
    PROVE  HandlerInv' /\ FileInv'
<1>1. /\ UNCHANGED <<up, pc, target, pending, trees, where, home, parent, inTree, state, told, proc,
                     task, cancelReq, sees, store, command, interruptions, cleared, overtaken,
                     escaped, lost, revived>>
      /\ disk' = store
      /\ finished' = finished \union
                       {m \in inTree : home[m] \in trees /\ state[m] = "completed"}
  BY DEF Saved, handlingVars, repositoryVars, taskVars, historyVars, countVars
<1>2. TypeOK'
  BY <1>1 DEF HandlerInv, TypeOK
<1>3. ChatInv'
  BY <1>1 DEF HandlerInv, ChatInv, Mapped, Answers, Remembered, Withdrawn, Known
<1>4. StoreInv'
  BY <1>1 DEF HandlerInv, StoreInv, Filed, Stored, Erased, Unsaved, CompletedIsStored, Known, Ghosts
<1>5. TaskInv'
  BY <1>1 DEF HandlerInv, TaskInv, Queued, Working, Orphans, ActiveIsServed, Known, Ghosts
<1>6. OnDisk'
  <2>1. ASSUME NEW m \in Message, Has(store, m), m \notin cleared
        PROVE  store.where[Status(m)] = home[m]
    BY <2>1 DEF Has, FileInv, Away, HandlerInv, StoreInv, Stored
  <2> QED
    BY <1>1, <2>1 DEF HandlerInv, StoreInv, Filed, OnDisk, Has
<1>7. Away'
  BY <1>1 DEF FileInv, Away, Has
<1>8. Settled'
  BY <1>1 DEF FileInv, Settled
<1>9. Survives'
  <2> SUFFICES ASSUME NEW m \in finished'
               PROVE  /\ told[m] = TRUE
                      /\ m \in inTree => state[m] = "completed"
                      /\ \A r \in Message : store.trees[r][m] \in {"absent", "completed"}
    BY <1>1 DEF Survives
  <2>1. CASE m \in finished
    BY <2>1 DEF FileInv, Survives
  <2>2. CASE m \notin finished
    <3>1. m \in inTree /\ m \in Message /\ home[m] \in trees /\ state[m] = "completed"
      BY <1>1, <2>2 DEF HandlerInv, TypeOK
    <3>2. told[m] = TRUE
      BY <3>1 DEF FileInv, Settled
    <3>3. store.trees[home[m]][m] = "completed"
      BY <3>1 DEF HandlerInv, StoreInv, CompletedIsStored
    <3>4. \A r \in Message : store.trees[r][m] # "absent" => r = home[m]
      BY <3>1 DEF HandlerInv, StoreInv, Filed
    <3> QED
      BY <3>1, <3>2, <3>3, <3>4
  <2> QED
    BY <2>1, <2>2
<1> QED
  BY <1>2, <1>3, <1>4, <1>5, <1>6, <1>7, <1>8, <1>9 DEF HandlerInv, FileInv

\* A start finds in the file what it finds again in memory.
LEMMA RestartKeepsFile ==
    ASSUME FileStore, HandlerInv, FileInv, Restart
    PROVE  FileInv'
<1>1. /\ UNCHANGED <<home, told, cleared, disk, finished>>
      /\ task' = [m \in Message |-> "none"]
      /\ lost' = lost \union {m \in Message : Has(store, m) /\ ~Has(disk, m)}
  BY DEF Restart, Durable, FileStore, historyVars
<1>2. /\ \A r, m \in Message : store'.trees[r][m] = CleanedUp(disk.trees[r][m])
      /\ \A m \in Message :
           /\ m \in inTree' <=> home[m] \in Message /\ disk.trees[home[m]][m] # "absent"
           /\ state'[m] = IF m \in inTree' THEN CleanedUp(disk.trees[home[m]][m]) ELSE "absent"
  BY Reloaded
<1>3. \A st : /\ CleanedUp(st) = "absent" <=> st = "absent"
              /\ CleanedUp(st) = "completed" <=> st = "completed"
  BY DEF CleanedUp, Active
<1>4. /\ lost \subseteq Message /\ finished \subseteq Message
      /\ \A m \in Message : home[m] \in Message \union {None}
  BY DEF HandlerInv, TypeOK
<1>5. OnDisk'
  BY <1>1 DEF FileInv, OnDisk, Has
<1>6. Away'
  <2> SUFFICES ASSUME NEW m \in lost'
               PROVE  home[m] # None /\ m \notin inTree' /\ ~Has(store, m)' /\ ~Has(disk, m)
    BY <1>1 DEF Away, Has
  <2>1. m \in Message /\ home[m] \in Message /\ home[m] # None /\ ~Has(disk, m)
    BY <1>1, <1>4 DEF FileInv, Away, Has
  <2>2. disk.trees[home[m]][m] = "absent"
    BY <2>1 DEF Has
  <2> QED
    BY <1>1, <1>2, <1>3, <2>1, <2>2 DEF Has
<1>7. Settled'
  <2> SUFFICES ASSUME NEW m \in Message
               PROVE  /\ state'[m] = "completed" => told[m] = TRUE
                      /\ \A r \in Message :
                           "completed" \in {store'.trees[r][m], disk.trees[r][m]} => told[m] = TRUE
    BY <1>1 DEF Settled
  <2>1. \A r \in Message : disk.trees[r][m] = "completed" => told[m] = TRUE
    BY DEF FileInv, Settled
  <2> QED
    BY <1>2, <1>3, <2>1
<1>8. Survives'
  <2> SUFFICES ASSUME NEW m \in finished
               PROVE  /\ told[m] = TRUE
                      /\ m \in inTree' => state'[m] = "completed"
                      /\ \A r \in Message :
                           {store'.trees[r][m], disk.trees[r][m]} \subseteq {"absent", "completed"}
    BY <1>1 DEF Survives
  <2>1. /\ m \in Message /\ told[m] = TRUE
        /\ \A r \in Message : disk.trees[r][m] \in {"absent", "completed"}
    BY <1>4 DEF FileInv, Survives
  <2> QED
    BY <1>2, <1>3, <2>1
<1> QED
  BY <1>5, <1>6, <1>7, <1>8 DEF FileInv

LEMMA FileStutters ==
    ASSUME FileInv, UNCHANGED vars
    PROVE  FileInv'
<1>1. UNCHANGED <<home, inTree, state, told, task, store, disk, cleared, finished, lost>>
  BY DEF vars, repositoryVars, taskVars, historyVars, fileVars
<1> QED
  BY <1>1 DEF FileInv, OnDisk, Away, Settled, Survives, Has

LEMMA FileInit ==
    ASSUME Init
    PROVE  FileInv
BY IdFacts DEF Init, FileInv, OnDisk, Away, Settled, Survives, Has, EmptyStore, NoTree

LEMMA HandlerStep ==
    ASSUME FileStore, HandlerInv, FileInv, [Next]_vars
    PROVE  HandlerInv' /\ FileInv'
<1>1. ASSUME NEW m \in Message, Handle(m) PROVE HandlerInv' /\ FileInv'
  <2>1. HandlerInv' /\ StoreMoves
    BY <1>1, HandlingOK, AcceptOK DEF Handle, HandlingOf
  <2> QED
    BY <1>1, <2>1, HandleMoves, FileKept
<1>2. ASSUME NEW n \in Message, TaskStep(n) PROVE HandlerInv' /\ FileInv'
  <2>1. HandlerInv' /\ StoreMoves
    BY <1>2, StartOK, NextOK, DieUnstartedOK, FailingOK, SessionInfoOK, CompleteOK DEF TaskStep
  <2> QED
    BY <1>2, <2>1, TaskStepMoves, FileKept
<1>3. ASSUME UserCommand PROVE HandlerInv' /\ FileInv'
  <2>1. HandlerInv' /\ StoreMoves
    BY <1>3, StopAllOK, SessionsStoppedOK, StopOK, ClearBranchOK, ClearVoiceOK, BranchDeletedOK,
       TreeDeletedOK, AllDeletedOK DEF UserCommand
  <2> QED
    BY <1>3, <2>1, CommandMoves, FileKept
<1>4. CASE Saved
  BY <1>4, SavedOK
<1>5. CASE Restart
  BY <1>5, RestartOK, RestartKeepsFile
<1>6. CASE UNCHANGED vars
  BY <1>6, HandlerStutters, FileStutters
<1> QED
  BY <1>1, <1>2, <1>3, <1>4, <1>5, <1>6 DEF Next

\* Whatever messages, commands, tasks, writes of the file and restarts there are,
\* the handler keeps its repository, its queues and tasks, the store and the file
\* consistent with each other.
THEOREM HandlerInvariant == FileStore => (Spec => [](HandlerInv /\ FileInv))
<1> SUFFICES ASSUME FileStore PROVE Spec => [](HandlerInv /\ FileInv)
  OBVIOUS
<1>1. Init => HandlerInv /\ FileInv
  BY HandlerInit, FileInit
<1>2. HandlerInv /\ FileInv /\ [Next]_vars => (HandlerInv /\ FileInv)'
  BY HandlerStep
<1> QED
  BY <1>1, <1>2, PTL DEF Spec

\* The variables of the handler keep the types of the code: ids, states, the
\* queues and tasks of the trees, and what the store has.
THEOREM HandlerTypes == FileStore => (Spec => []TypeOK)
<1>1. HandlerInv => TypeOK
  BY DEF HandlerInv
<1> QED
  BY <1>1, HandlerInvariant, PTL

\* add_to_tree raises only for a parent that /clear removed while the message was
\* handled: no reply is refused otherwise.
THEOREM RepliesAreAccepted == FileStore => (Spec => []RefusedOnlyWhenGone)
<1>1. HandlerInv => RefusedOnlyWhenGone
  BY DEF HandlerInv, ChatInv, Answers, RefusedOnlyWhenGone
<1> QED
  BY <1>1, HandlerInvariant, PTL

\* A reply to a message that was taken and not cleared, or to its status message,
\* finds its node, and finds it again after the next start, unless the process
\* ended before the file had it.
THEOREM AnswersAreFound == FileStore => (Spec => []Restores)
<1>1. HandlerInv => Restores
  <2> SUFFICES ASSUME HandlerInv, NEW m \in Message, pc[m] = "done", m \notin cleared,
                      m \notin lost, NEW id \in {m, Status(m)}
               PROVE  /\ Resolve(id) = m
                      /\ store.where[id] = home[m]
                      /\ store.trees[home[m]][m] # "absent"
    BY DEF Restores
  <2>1. Known(m) /\ where[Status(m)] = home[m] /\ where[m] = home[m]
    BY DEF HandlerInv, ChatInv, Remembered, Mapped
  <2>2. Resolve(id) = m
    BY <2>1, FindsNode DEF HandlerInv
  <2>3. home[m] \in Message
    BY <2>1, IdFacts DEF HandlerInv, TypeOK, Known
  <2>4. /\ store.where[Status(m)] = home[m] /\ store.trees[home[m]][m] # "absent"
    BY <2>3, IdFacts DEF HandlerInv, StoreInv, Stored
  <2>5. store.where[m] = home[m]
    BY <2>3, <2>4 DEF HandlerInv, StoreInv, Filed
  <2> QED
    BY <2>2, <2>4, <2>5
<1> QED
  BY <1>1, HandlerInvariant, PTL

\* What /clear removed is in no conversation and not in the store, but for trees
\* that a message or a task put back while everything was cleared, and for what
\* the file still had when the process ended.
THEOREM ClearedStaysAway == FileStore => (Spec => []ClearedIsGone)
<1>1. HandlerInv => ClearedIsGone
  <2> SUFFICES ASSUME HandlerInv, NEW m \in cleared \ revived, home[m] \notin Ghosts
               PROVE  Resolve(m) = None /\ \A r \in Message : store.trees[r][m] = "absent"
    BY DEF ClearedIsGone
  <2>1. ~Known(m) /\ \A r \in Message : store.trees[r][m] = "absent"
    BY DEF HandlerInv, StoreInv, Erased
  <2>2. m \in Message /\ TypeOK /\ inTree \subseteq Message
    BY DEF HandlerInv, TypeOK
  <2>3. Resolve(m) = None
    <3> SUFFICES ASSUME Resolve(m) # None PROVE FALSE
      OBVIOUS
    <3> DEFINE own == {k \in inTree : home[k] = TreeFor(m) /\ m \in {k, Status(k)}}
    <3>1. own # {} /\ TreeFor(m) \in trees
      BY DEF Resolve, TreeFor
    <3>2. PICK k \in own : TRUE
      BY <3>1
    <3>3. k = m
      BY <2>2, IdFacts
    <3> QED
      BY <2>1, <3>1, <3>3 DEF Known
  <2> QED
    BY <2>1, <2>3
<1> QED
  BY <1>1, HandlerInvariant, PTL

\* A node that waits or runs has a task or a place in its queue, unless the CLI
\* ended without telling a session id.
THEOREM NobodyWaitsInVain == FileStore => (Spec => []ActiveIsServed)
<1>1. HandlerInv => ActiveIsServed
  BY DEF HandlerInv, TaskInv
<1> QED
  BY <1>1, HandlerInvariant, PTL

\* A finished answer that the file had once is a finished answer whenever it is in
\* a conversation again: a start never reports it as lost, whatever /stop, /clear,
\* the other tasks, the timer of the file and the ends of processes do.
THEOREM FinishedAnswersSurvive == FileStore => (Spec => []FinishedIsKept)
<1>1. FileInv => FinishedIsKept
  BY DEF FileInv, Survives, FinishedIsKept
<1> QED
  BY <1>1, HandlerInvariant, PTL

=============================================================================
