------------------------- MODULE CorpusCursorProofs -------------------------
(***************************************************************************)
(* The safety properties of CorpusCursor for any number of items, callers, *)
(* coroutines and deposits.                                                *)
(***************************************************************************)
EXTENDS CorpusCursor, FiniteSetTheorems, TLAPS

-----------------------------------------------------------------------------
(* The inductive invariant: what a call in progress knows at each of its   *)
(* round trips.                                                            *)

\* The caller n has read everything deposited up to t.
Covered(n, t) == \A i \in Items : item[i] = "deposited" /\ at[i] <= t => at[i] \in read[n]

ItemsOk ==
  \A i \in Items : /\ item[i] = "deposited" => at[i] > 0
                   /\ item[i] # "pending" => i \in selected

CursorsOk == \A n \in Names : Covered(n, cursor[n]) /\ answered[n] <= cursor[n]

\* What is behind the position of a call that will move the cursor.
CoverOk(p) ==
  /\ PullAt(p, "save") => Stateful(p)
  /\ Stateful(p) =>
       /\ ~PullAt(p, "fold")
       /\ PullAt(p, "rows") => Covered(Caller(p), pull[p].since)
       /\ pull[p].pc \in {"counts", "save"} => \A t \in pull[p].rows : Covered(Caller(p), t)
       /\ PullAt(p, "answer") => \A t \in pull[p].rows : t <= cursor[Caller(p)]

\* What a call of only_new may not serve again.
FreshOk(p) ==
  pull[p].mode = "only_new" =>
    /\ pull[p].known <= answered[Caller(p)]
    /\ PullAt(p, "rows") => pull[p].known <= pull[p].since
    /\ \A t \in pull[p].rows : t > pull[p].known

\* What a call knows as long as nothing has moved since it read its rows, or
\* the row of the request.
QuietOk(p) ==
  pull[p].quiet =>
    /\ (Stateful(p) /\ pull[p].pc \in {"counts", "save", "answer"}) =>
         \A i \in Items : item[i] = "deposited" => at[i] \in read[Caller(p)]
    /\ pull[p].pc \in {"save", "answer"} => pull[p].display = DisplayStatus(pull[p].status, Counts)

PullOk(p) == CoverOk(p) /\ FreshOk(p) /\ QuietOk(p)

IInv == TypeOK /\ ItemsOk /\ CursorsOk /\ \A p \in Pullers : PullOk(p)

-----------------------------------------------------------------------------
(* Types.                                                                  *)

LEMMA UnreadType == ASSUME clock \in Nat PROVE Unread \in PullRecord
<1>1. (CHOOSE n \in Names : TRUE) \in Names  BY CorpusAssumption
<1> QED  BY <1>1 DEF Unread, PullRecord, PullPC, Modes, Stored, Stages, Displayed

LEMMA InitTypes == Init => TypeOK
<1> SUFFICES ASSUME Init PROVE TypeOK  OBVIOUS
<1>1. clock = 0 /\ 0 \in Times /\ 0 \in 0 .. clock /\ request \in Stored
  BY CorpusAssumption DEF Init, Times, Stored, Stages
<1>2. pull \in [Pullers -> PullRecord]  BY <1>1, UnreadType DEF Init
<1> QED  BY <1>1, <1>2 DEF Init, TypeOK

LEMMA PipelineTypes ==
  ASSUME TypeOK, PipelineNext
  PROVE  TypeOK' /\ clock <= clock' /\ UNCHANGED <<cursor, read, answered>>
<1>1. (Disturb \/ UNCHANGED pull) /\ UNCHANGED <<cursor, read, answered>>
  BY DEF PipelineNext, Select, Delete, MarkDeposited, MarkFailed, Reopen, UpdateStatus, delivery
<1>2. /\ request' \in Stored /\ item' \in [Items -> {"pending", "deposited", "failed"}]
      /\ selected' \in SUBSET Items /\ clock' \in Times /\ clock <= clock'
      /\ at' \in [Items -> 0 .. clock']
  <2>1. ASSUME NEW i \in Items, MarkDeposited(i)
        PROVE  /\ request' \in Stored /\ item' \in [Items -> {"pending", "deposited", "failed"}]
               /\ selected' \in SUBSET Items /\ clock' \in Times /\ clock <= clock'
               /\ at' \in [Items -> 0 .. clock']
    BY <2>1, CorpusAssumption DEF TypeOK, MarkDeposited, Times
  <2>2. CASE UNCHANGED clock /\ at' \in [Items -> 0 .. clock]
    <3>1. clock' \in Times /\ clock <= clock' /\ at' \in [Items -> 0 .. clock']
      BY <2>2, CorpusAssumption DEF TypeOK, Times
    <3>2. /\ request' \in Stored /\ item' \in [Items -> {"pending", "deposited", "failed"}]
          /\ selected' \in SUBSET Items
      BY DEF TypeOK, PipelineNext, Select, Delete, MarkDeposited, MarkFailed, Reopen, UpdateStatus, Stored
    <3> QED  BY <3>1, <3>2
  <2>3. ASSUME NEW i \in Items, Delete(i)  PROVE UNCHANGED clock /\ at' \in [Items -> 0 .. clock]
    BY <2>3, CorpusAssumption DEF TypeOK, Delete, Times
  <2> QED
    BY <2>1, <2>2, <2>3 DEF PipelineNext, Select, MarkFailed, Reopen, UpdateStatus, TypeOK
<1>3. 0 .. clock \subseteq 0 .. clock'  BY <1>2 DEF TypeOK, Times
<1>4. cursor' \in [Names -> 0 .. clock'] /\ answered' \in [Names -> 0 .. clock']
  BY <1>1, <1>3 DEF TypeOK
<1>5. read' \in [Names -> SUBSET (0 .. clock')]  BY <1>1, <1>3 DEF TypeOK
<1>6. pull' \in [Pullers -> PullRecord']
  <2>1. ASSUME NEW p \in Pullers  PROVE [pull[p] EXCEPT !.quiet = FALSE] \in PullRecord'
    <3>1. pull[p] \in PullRecord  BY DEF TypeOK
    <3> QED  BY <1>3, <3>1 DEF PullRecord
  <2>2. ASSUME NEW p \in Pullers  PROVE pull[p] \in PullRecord'
    <3>1. pull[p] \in PullRecord  BY DEF TypeOK
    <3> QED  BY <1>3, <3>1 DEF PullRecord
  <2>3. CASE Disturb  BY <2>1, <2>3 DEF Disturb
  <2>4. CASE UNCHANGED pull  BY <2>2, <2>4 DEF TypeOK
  <2> QED  BY <1>1, <2>3, <2>4
<1> QED  BY <1>1, <1>2, <1>4, <1>5, <1>6 DEF TypeOK

\* A statement on an item is noticed by every call, one on the request moves no item.
LEMMA PipelineMoves ==
  ASSUME PipelineNext
  PROVE  Disturb \/ UNCHANGED <<item, selected, at, clock, delivery>>
BY DEF PipelineNext, Select, Delete, MarkDeposited, MarkFailed, Reopen, UpdateStatus

LEMMA DisplayType ==
  ASSUME NEW stored \in Stored, NEW counts
  PROVE  DisplayStatus(stored, counts) \in Displayed
BY DEF DisplayStatus, Displayed, Stored

LEMMA DepositedType ==
  ASSUME TypeOK, NEW t
  PROVE  Deposited(t) \in SUBSET (0 .. clock)
BY DEF TypeOK, Deposited

\* A step of one call.
PullStep(p) ==
  \/ PullSince(p) \/ PullRows(p) \/ PullCounts(p) \/ PullSave(p) \/ PullAnswer(p) \/ PullLost(p)
  \/ StatusRequest(p) \/ StatusCounts(p)
  \/ \E n \in Names, mode \in Modes, since \in Times : PullRequest(p, n, mode, since)

\* The call p becomes the record r and leaves the other calls and the pipeline alone.
Becomes(p, r) == pull' = [pull EXCEPT ![p] = r] /\ UNCHANGED pipeline

LEMMA BecomesTypes ==
  ASSUME TypeOK, NEW p \in Pullers, NEW r \in PullRecord, Becomes(p, r),
         cursor' \in [Names -> 0 .. clock], read' \in [Names -> SUBSET (0 .. clock)],
         answered' \in [Names -> 0 .. clock]
  PROVE  TypeOK'
<1>1. pull' \in [Pullers -> PullRecord]  BY DEF TypeOK, Becomes
<1>2. PullRecord' = PullRecord  BY DEF Becomes, pipeline, PullRecord
<1> QED  BY <1>1, <1>2 DEF TypeOK, Becomes, pipeline

-----------------------------------------------------------------------------
(* The calls, one action at a time.                                        *)

\* What every step of a call leaves to the other calls.
Grows ==
  /\ UNCHANGED pipeline
  /\ \A n \in Names : /\ read[n] \subseteq read'[n]
                      /\ cursor[n] <= cursor'[n]
                      /\ answered[n] <= answered'[n]

Moves(p) == TypeOK' /\ Grows /\ CursorsOk' /\ PullOk(p)' /\ \A q \in Pullers \ {p} : pull'[q] = pull[q]

LEMMA RequestMoves ==
  ASSUME IInv, NEW p \in Pullers, NEW n \in Names, NEW mode \in Modes, NEW since \in Times,
         PullRequest(p, n, mode, since)
  PROVE  Moves(p)
<1> DEFINE r == [pc |-> IF mode = "only_new" THEN "since" ELSE "rows", name |-> n, mode |-> mode,
                 status |-> request, since |-> since, rows |-> {}, display |-> request,
                 quiet |-> FALSE, known |-> IF mode = "only_new" THEN answered[n] ELSE 0]
<1>1. Becomes(p, r) /\ UNCHANGED <<cursor, read, answered>>  BY DEF PullRequest, Becomes
<1>2. r \in PullRecord
  <2>1. request \in Stored /\ request \in Displayed /\ answered[n] \in 0 .. clock /\ 0 \in 0 .. clock
    BY CorpusAssumption DEF IInv, TypeOK, Stored, Displayed, Times
  <2> QED  BY <2>1 DEF PullRequest, PullRecord, PullPC
<1>3. TypeOK'  BY <1>1, <1>2, BecomesTypes DEF IInv, TypeOK
<1>4. Grows  BY <1>1 DEF Becomes, Grows, IInv, TypeOK
<1>5. pull'[p] = r /\ \A q \in Pullers \ {p} : pull'[q] = pull[q]
  BY <1>1 DEF Becomes, IInv, TypeOK
<1>6. CursorsOk'  BY <1>1 DEF Becomes, pipeline, IInv, CursorsOk, Covered
<1>7. CoverOk(p)'
  <2>1. CASE mode = "all"
    <3>1. \A i \in Items : item[i] = "deposited" => ~(at[i] <= 0)
      BY DEF IInv, ItemsOk, TypeOK, Times
    <3> QED  BY <1>1, <1>5, <2>1, <3>1 DEF CoverOk, PullAt, Caller, Covered, Becomes, pipeline, PullRequest
  <2>2. CASE mode # "all"
    BY <1>5, <2>2 DEF CoverOk, PullAt, Stateful, Modes
  <2> QED  BY <2>1, <2>2
<1>8. FreshOk(p)'  BY <1>1, <1>5 DEF FreshOk, PullAt, Caller, IInv, TypeOK
<1>9. QuietOk(p)'  BY <1>5 DEF QuietOk
<1> QED  BY <1>3, <1>4, <1>5, <1>6, <1>7, <1>8, <1>9 DEF Moves, PullOk

LEMMA SinceMoves ==
  ASSUME IInv, NEW p \in Pullers, PullSince(p)
  PROVE  Moves(p)
<1> DEFINE r == [pull[p] EXCEPT !.pc = "rows", !.since = cursor[Caller(p)]]
<1>1. Becomes(p, r) /\ UNCHANGED <<cursor, read, answered>>
  BY DEF PullSince, Becomes, IInv, TypeOK
<1>2. pull[p] \in PullRecord /\ Caller(p) \in Names /\ r \in PullRecord
  BY DEF IInv, TypeOK, PullRecord, Caller, PullPC
<1>3. TypeOK'  BY <1>1, <1>2, BecomesTypes DEF IInv, TypeOK
<1>4. Grows  BY <1>1 DEF Becomes, Grows, IInv, TypeOK
<1>5. pull'[p] = r /\ \A q \in Pullers \ {p} : pull'[q] = pull[q]
  BY <1>1 DEF Becomes, IInv, TypeOK
<1>6. CursorsOk'  BY <1>1 DEF Becomes, pipeline, IInv, CursorsOk, Covered
<1>7. r.pc = "rows" /\ r.since = cursor[Caller(p)] /\ r.name = pull[p].name /\ r.mode = pull[p].mode
      /\ r.rows = pull[p].rows /\ r.known = pull[p].known
  BY <1>2 DEF PullRecord
<1>8. CoverOk(p)'
  BY <1>2, <1>5, <1>6, <1>7, <1>1 DEF CoverOk, PullAt, Caller, CursorsOk, Covered, Becomes, pipeline
<1>9. FreshOk(p)'
  BY <1>1, <1>2, <1>5, <1>7 DEF FreshOk, PullAt, Caller, IInv, PullOk, CursorsOk, TypeOK, PullRecord
<1>10. QuietOk(p)'  BY <1>5, <1>7 DEF QuietOk
<1> QED  BY <1>3, <1>4, <1>5, <1>6, <1>8, <1>9, <1>10 DEF Moves, PullOk

LEMMA RowsMoves ==
  ASSUME IInv, NEW p \in Pullers, PullRows(p)
  PROVE  Moves(p)
<1> DEFINE rows == Deposited(pull[p].since)
           r == [pull[p] EXCEPT !.pc = "counts", !.rows = rows, !.since = 0, !.quiet = Stateful(p)]
<1>1. Becomes(p, r) /\ UNCHANGED <<cursor, answered>>
  BY DEF PullRows, Becomes, IInv, TypeOK
<1>2. pull[p] \in PullRecord /\ Caller(p) \in Names /\ rows \in SUBSET (0 .. clock)
  BY DepositedType DEF IInv, TypeOK, PullRecord, Caller
<1>3. r \in PullRecord
  <2>1. 0 \in 0 .. clock /\ "counts" \in PullPC  BY CorpusAssumption DEF IInv, TypeOK, Times, PullPC
  <2>2. Stateful(p) \in BOOLEAN  BY DEF Stateful
  <2> HIDE DEF rows
  <2> QED  BY <1>2, <2>1, <2>2 DEF PullRecord
<1>4. /\ read' \in [Names -> SUBSET (0 .. clock)]
      /\ \A n \in Names : read[n] \subseteq read'[n]
      /\ Stateful(p) => rows \subseteq read'[Caller(p)]
  BY <1>2 DEF PullRows, IInv, TypeOK
<1>5. TypeOK'  BY <1>1, <1>3, <1>4, BecomesTypes DEF IInv, TypeOK
<1>6. Grows  BY <1>1, <1>4 DEF Becomes, Grows, IInv, TypeOK
<1>7. /\ \A q \in Pullers \ {p} : pull'[q] = pull[q]
      /\ pull'[p].pc = "counts" /\ pull'[p].rows = rows /\ pull'[p].name = pull[p].name
      /\ pull'[p].mode = pull[p].mode /\ pull'[p].known = pull[p].known
  BY <1>1, <1>2 DEF Becomes, IInv, TypeOK, PullRecord
<1>8. CursorsOk'
  BY <1>1, <1>4 DEF Becomes, pipeline, IInv, CursorsOk, Covered
\* What was not behind the cursor has just been read.
<1>9. Stateful(p) => \A i \in Items : item[i] = "deposited" => at[i] \in read'[Caller(p)]
  <2>1. SUFFICES ASSUME Stateful(p), NEW i \in Items, item[i] = "deposited"
                 PROVE  at[i] \in read'[Caller(p)]
    OBVIOUS
  <2>2. CASE at[i] > pull[p].since  BY <1>4, <2>1, <2>2 DEF Deposited
  <2>3. CASE ~(at[i] > pull[p].since)
    <3>1. at[i] <= pull[p].since  BY <1>2, <2>3 DEF IInv, TypeOK, PullRecord, Times
    <3>2. Covered(Caller(p), pull[p].since)  BY <2>1 DEF IInv, PullOk, CoverOk, PullRows
    <3> QED  BY <1>2, <1>4, <2>1, <3>1, <3>2 DEF Covered
  <2> QED  BY <2>2, <2>3
<1>10. CoverOk(p)'
  BY <1>1, <1>7, <1>9 DEF CoverOk, PullAt, Caller, Stateful, Covered, Becomes, pipeline
<1>11. FreshOk(p)'
  <2>1. SUFFICES ASSUME pull[p].mode = "only_new"
                 PROVE  pull[p].known <= answered[Caller(p)] /\ \A t \in rows : t > pull[p].known
    BY <1>1, <1>7 DEF FreshOk, PullAt, Caller
  <2>2. pull[p].known <= answered[Caller(p)] /\ pull[p].known <= pull[p].since
    BY <2>1 DEF IInv, PullOk, FreshOk, PullRows
  <2>3. \A t \in rows : t > pull[p].since  BY DEF Deposited
  <2> QED  BY <1>2, <2>2, <2>3 DEF IInv, TypeOK, PullRecord, Times
<1>12. QuietOk(p)'
  BY <1>1, <1>7, <1>9 DEF QuietOk, Stateful, Caller, Becomes, pipeline
<1> QED  BY <1>5, <1>6, <1>7, <1>8, <1>10, <1>11, <1>12 DEF Moves, PullOk

\* The counts tell whether a selected item is still to be finished.
LEMMA Finished ==
  ASSUME TypeOK, ItemsOk
  PROVE  /\ DisplayStatus("acquiring", Counts) \in {"acquiring", "completed", "partially_failed"}
         /\ DisplayStatus("acquiring", Counts) = "acquiring" <=> \E i \in selected : item[i] = "pending"
<1> DEFINE dep == {i \in Items : item[i] = "deposited"}
           fail == {i \in Items : item[i] = "failed"}
<1>1. dep \cup fail \subseteq selected  BY DEF ItemsOk
<1>2. IsFiniteSet(selected) /\ IsFiniteSet(dep) /\ IsFiniteSet(fail) /\ IsFiniteSet(dep \cup fail)
  BY CorpusAssumption, FS_Subset, FS_Union DEF TypeOK
<1>3. /\ Cardinality(selected) \in Nat /\ Cardinality(dep) \in Nat /\ Cardinality(fail) \in Nat
      /\ Cardinality(dep \cup fail) \in Nat
  BY <1>2, FS_CardinalityType
<1>4. Cardinality(dep \cup fail) = Cardinality(dep) + Cardinality(fail)
  <2>1. dep \cap fail = {}  OBVIOUS
  <2>2. Cardinality(dep \cap fail) = 0  BY <2>1, FS_EmptySet
  <2>3. Cardinality(dep \cup fail) = Cardinality(dep) + Cardinality(fail) - Cardinality(dep \cap fail)
    BY <1>2, FS_Union
  <2> QED  BY <1>3, <2>2, <2>3
<1>5. Cardinality(dep \cup fail) <= Cardinality(selected)  BY <1>1, <1>2, FS_Subset
\* As many finished as selected items: they are the same.
<1>6. Cardinality(dep) + Cardinality(fail) >= Cardinality(selected) <=> selected = dep \cup fail
  <2>1. ASSUME Cardinality(dep) + Cardinality(fail) >= Cardinality(selected)
        PROVE  selected = dep \cup fail
    <3>1. Cardinality(dep \cup fail) = Cardinality(selected)  BY <1>3, <1>4, <1>5, <2>1
    <3> QED  BY <1>1, <1>2, <3>1, FS_Subset
  <2>2. ASSUME selected = dep \cup fail
        PROVE  Cardinality(dep) + Cardinality(fail) >= Cardinality(selected)
    BY <1>3, <1>4, <2>2
  <2> QED  BY <2>1, <2>2
<1>7. selected = dep \cup fail <=> ~\E i \in selected : item[i] = "pending"
  BY <1>1 DEF TypeOK
<1>8. Cardinality(selected) = 0 => selected = dep \cup fail
  <2>1. Cardinality(selected) = 0 => selected = {}  BY <1>2, FS_EmptySet
  <2> QED  BY <1>1, <2>1
<1>9. Counts.selected = Cardinality(selected) /\ Counts.deposited = Cardinality(dep)
      /\ Counts.failed = Cardinality(fail)
  BY DEF Counts, CountOf
<1> HIDE DEF dep, fail
<1> QED  BY <1>6, <1>7, <1>8, <1>9 DEF DisplayStatus, Stages

LEMMA CountsMoves ==
  ASSUME IInv, NEW p \in Pullers, PullCounts(p)
  PROVE  Moves(p)
<1> DEFINE display == DisplayStatus(pull[p].status, Counts)
           r(pc) == [pull[p] EXCEPT !.pc = pc, !.display = display]
<1>1. PICK pc \in {"save", "answer"} :
        /\ Becomes(p, r(pc)) /\ UNCHANGED <<cursor, read, answered>>
        /\ pc = "answer" => ~Stateful(p) \/ pull[p].rows = {}
        /\ pc = "save" => Stateful(p)
  <2>1. CASE Stateful(p) /\ pull[p].rows # {}
    BY <2>1 DEF PullCounts, Becomes, IInv, TypeOK
  <2>2. CASE ~(Stateful(p) /\ pull[p].rows # {})
    BY <2>2 DEF PullCounts, Becomes, IInv, TypeOK
  <2> QED  BY <2>1, <2>2
<1>2. pull[p] \in PullRecord /\ Caller(p) \in Names /\ display \in Displayed
  BY DisplayType DEF IInv, TypeOK, PullRecord, Caller
<1> HIDE DEF display
<1>3. r(pc) \in PullRecord  BY <1>1, <1>2 DEF PullRecord, PullPC
<1>4. TypeOK'  BY <1>1, <1>3, BecomesTypes DEF IInv, TypeOK
<1>5. Grows  BY <1>1 DEF Becomes, Grows, IInv, TypeOK
<1>6. /\ \A q \in Pullers \ {p} : pull'[q] = pull[q]
      /\ pull'[p].pc = pc /\ pull'[p].display = display /\ pull'[p].name = pull[p].name
      /\ pull'[p].rows = pull[p].rows /\ pull'[p].mode = pull[p].mode /\ pull'[p].known = pull[p].known
      /\ pull'[p].quiet = pull[p].quiet /\ pull'[p].status = pull[p].status
  BY <1>1, <1>2 DEF Becomes, IInv, TypeOK, PullRecord
<1>7. CursorsOk'  BY <1>1 DEF Becomes, pipeline, IInv, CursorsOk, Covered
<1>8. PullAt(p, "counts")  BY DEF PullCounts
<1>9. CoverOk(p)'
  BY <1>1, <1>6, <1>8 DEF IInv, PullOk, CoverOk, PullAt, Caller, Stateful, Covered, Becomes, pipeline
<1>10. FreshOk(p)'
  BY <1>1, <1>6, <1>8 DEF IInv, PullOk, FreshOk, PullAt, Caller
<1>11. QuietOk(p)'
  <2>1. Counts' = Counts /\ UNCHANGED <<item, at, read>>  BY <1>1 DEF Becomes, pipeline, Counts, CountOf
  <2>2. (pull[p].quiet /\ Stateful(p)) => \A i \in Items : item[i] = "deposited" => at[i] \in read[Caller(p)]
    BY <1>8 DEF IInv, PullOk, QuietOk, PullAt
  <2> QED  BY <1>1, <1>6, <2>1, <2>2 DEF QuietOk, Stateful, Caller, DisplayStatus, display
<1> QED  BY <1>4, <1>5, <1>6, <1>7, <1>9, <1>10, <1>11 DEF Moves, PullOk

LEMMA SaveMoves ==
  ASSUME IInv, NEW p \in Pullers, PullSave(p)
  PROVE  Moves(p)
<1> DEFINE r == [pull[p] EXCEPT !.pc = "answer"]
           n == Caller(p)
<1>1. Becomes(p, r) /\ UNCHANGED <<read, answered>>
  BY DEF PullSave, Becomes, IInv, TypeOK
<1>2. PICK t \in Times : /\ Latest(p, t)
                         /\ cursor' = [cursor EXCEPT ![n] = IF t > cursor[n] THEN t ELSE cursor[n]]
  BY DEF PullSave
<1>3. pull[p] \in PullRecord /\ n \in Names /\ r \in PullRecord /\ t \in 0 .. clock
  BY <1>2 DEF IInv, TypeOK, PullRecord, Caller, PullPC, Latest
<1>4. cursor' \in [Names -> 0 .. clock]  BY <1>2, <1>3 DEF IInv, TypeOK
<1>5. TypeOK'  BY <1>1, <1>3, <1>4, BecomesTypes DEF IInv, TypeOK
<1>6. \A m \in Names : cursor[m] <= cursor'[m]
  BY <1>2, <1>3, CorpusAssumption DEF IInv, TypeOK, Times
<1>7. Grows  BY <1>1, <1>6 DEF Becomes, Grows, IInv, TypeOK, Times
<1>8. /\ \A q \in Pullers \ {p} : pull'[q] = pull[q]
      /\ pull'[p].pc = "answer" /\ pull'[p].name = pull[p].name /\ pull'[p].rows = pull[p].rows
      /\ pull'[p].mode = pull[p].mode /\ pull'[p].known = pull[p].known
      /\ pull'[p].quiet = pull[p].quiet /\ pull'[p].status = pull[p].status
      /\ pull'[p].display = pull[p].display
  BY <1>1, <1>3 DEF Becomes, IInv, TypeOK, PullRecord
<1>9. PullAt(p, "save")  BY DEF PullSave
\* A stateless call is never here.
<1>10. Stateful(p)  BY <1>9 DEF IInv, PullOk, CoverOk
<1>11. CursorsOk'
  <2>1. Covered(n, t)  BY <1>2, <1>9, <1>10 DEF IInv, PullOk, CoverOk, PullAt, Latest
  <2>2. Covered(n, cursor[n]) /\ answered[n] <= cursor[n]  BY <1>3 DEF IInv, CursorsOk
  <2>3. cursor'[n] = t \/ cursor'[n] = cursor[n]  BY <1>2, <1>3 DEF IInv, TypeOK
  <2>4. \A m \in Names \ {n} : cursor'[m] = cursor[m]  BY <1>2, <1>3 DEF IInv, TypeOK
  <2>5. \A m \in Names : Covered(m, cursor[m]) /\ answered[m] <= cursor[m]  BY DEF IInv, CursorsOk
  <2>6. \A m \in Names : answered'[m] <= cursor'[m]
    BY <1>1, <1>6, <2>5, CorpusAssumption, <1>4 DEF IInv, TypeOK, Times
  <2>7. \A m \in Names, i \in Items :
          item'[i] = "deposited" /\ at'[i] <= cursor'[m] => at'[i] \in read'[m]
    BY <1>1, <2>1, <2>3, <2>4, <2>5 DEF Covered, Becomes, pipeline
  <2> QED  BY <2>6, <2>7 DEF CursorsOk, Covered
<1>12. CoverOk(p)'
  <2>1. \A u \in pull[p].rows : u <= cursor'[n]
    BY <1>2, <1>3, <1>4 DEF Latest, IInv, TypeOK, PullRecord, Times
  <2> QED  BY <1>8, <2>1 DEF CoverOk, PullAt, Caller
<1>13. FreshOk(p)'
  BY <1>1, <1>8, <1>9 DEF IInv, PullOk, FreshOk, PullAt, Caller
<1>14. QuietOk(p)'
  <2>1. Counts' = Counts /\ UNCHANGED <<item, at, read>>  BY <1>1 DEF Becomes, pipeline, Counts, CountOf
  <2> QED  BY <1>8, <1>9, <2>1 DEF IInv, PullOk, QuietOk, PullAt, Stateful, Caller, DisplayStatus
<1> QED  BY <1>5, <1>7, <1>8, <1>11, <1>12, <1>13, <1>14 DEF Moves, PullOk

LEMMA UnreadOk ==
  ASSUME NEW p \in Pullers, pull'[p] = Unread
  PROVE  PullOk(p)'
BY DEF PullOk, CoverOk, FreshOk, QuietOk, PullAt, Stateful, Unread

LEMMA AnswerMoves ==
  ASSUME IInv, NEW p \in Pullers, PullAnswer(p)
  PROVE  Moves(p)
<1> DEFINE n == Caller(p)
<1>1. Becomes(p, Unread) /\ UNCHANGED <<cursor, read>>  BY DEF PullAnswer, Becomes
<1>2. Unread \in PullRecord /\ pull[p] \in PullRecord /\ n \in Names
  BY UnreadType, CorpusAssumption DEF IInv, TypeOK, Times, PullRecord, Caller
<1>3. PullAt(p, "answer")  BY DEF PullAnswer
<1>4. /\ answered' \in [Names -> 0 .. clock]
      /\ \A m \in Names : answered[m] <= answered'[m] /\ answered'[m] <= cursor[m]
  <2>1. \A m \in Names : answered[m] <= cursor[m]  BY DEF IInv, CursorsOk
  <2>2. CASE Stateful(p) /\ pull[p].rows # {}
    <3>1. PICK t \in Times : /\ Latest(p, t)
                             /\ answered' = [answered EXCEPT ![n] = IF t > answered[n] THEN t ELSE answered[n]]
      BY <2>2 DEF PullAnswer
    <3>2. t \in 0 .. clock /\ t <= cursor[n]
      BY <1>2, <1>3, <2>2, <3>1 DEF Latest, PullRecord, IInv, PullOk, CoverOk
    <3> QED  BY <1>2, <2>1, <3>1, <3>2, CorpusAssumption DEF IInv, TypeOK, Times
  <2>3. CASE ~(Stateful(p) /\ pull[p].rows # {})
    <3>1. UNCHANGED answered  BY <2>3 DEF PullAnswer
    <3> QED  BY <2>1, <3>1 DEF IInv, TypeOK
  <2> QED  BY <2>2, <2>3
<1>5. TypeOK'  BY <1>1, <1>2, <1>4, BecomesTypes DEF IInv, TypeOK
<1>6. Grows  BY <1>1, <1>4 DEF Becomes, Grows, IInv, TypeOK
<1>7. pull'[p] = Unread /\ \A q \in Pullers \ {p} : pull'[q] = pull[q]
  BY <1>1 DEF Becomes, IInv, TypeOK
<1>8. CursorsOk'  BY <1>1, <1>4 DEF Becomes, pipeline, IInv, CursorsOk, Covered
<1> QED  BY <1>5, <1>6, <1>7, <1>8, UnreadOk DEF Moves

LEMMA StatusRequestMoves ==
  ASSUME IInv, NEW p \in Pullers, StatusRequest(p)
  PROVE  Moves(p)
<1> DEFINE r == [Unread EXCEPT !.pc = "fold", !.mode = "status", !.status = request, !.quiet = TRUE]
<1>1. Becomes(p, r) /\ UNCHANGED <<cursor, read, answered>>  BY DEF StatusRequest, Becomes
<1>2. Unread \in PullRecord  BY UnreadType, CorpusAssumption DEF IInv, TypeOK, Times
<1>3. r \in PullRecord
  BY <1>2 DEF IInv, TypeOK, PullRecord, PullPC, Modes
<1>4. TypeOK'  BY <1>1, <1>3, BecomesTypes DEF IInv, TypeOK
<1>5. Grows  BY <1>1 DEF Becomes, Grows, IInv, TypeOK
<1>6. pull'[p] = r /\ \A q \in Pullers \ {p} : pull'[q] = pull[q]
  BY <1>1 DEF Becomes, IInv, TypeOK
<1>7. CursorsOk'  BY <1>1 DEF Becomes, pipeline, IInv, CursorsOk, Covered
<1>8. r.pc = "fold" /\ r.mode = "status"  BY <1>2 DEF PullRecord
<1>9. PullOk(p)'
  BY <1>6, <1>8 DEF PullOk, CoverOk, FreshOk, QuietOk, PullAt, Stateful
<1> QED  BY <1>4, <1>5, <1>6, <1>7, <1>9 DEF Moves

LEMMA StatusCountsMoves ==
  ASSUME IInv, NEW p \in Pullers, StatusCounts(p)
  PROVE  Moves(p)
<1> DEFINE display == DisplayStatus(pull[p].status, Counts)
           r == [pull[p] EXCEPT !.pc = "answer", !.display = display]
<1>1. Becomes(p, r) /\ UNCHANGED <<cursor, read, answered>>
  BY DEF StatusCounts, Becomes, IInv, TypeOK
<1>2. pull[p] \in PullRecord /\ display \in Displayed
  BY DisplayType DEF IInv, TypeOK, PullRecord
<1> HIDE DEF display
<1>3. r \in PullRecord  BY <1>2 DEF PullRecord, PullPC
<1>4. TypeOK'  BY <1>1, <1>3, BecomesTypes DEF IInv, TypeOK
<1>5. Grows  BY <1>1 DEF Becomes, Grows, IInv, TypeOK
<1>6. /\ \A q \in Pullers \ {p} : pull'[q] = pull[q]
      /\ pull'[p].pc = "answer" /\ pull'[p].display = display /\ pull'[p].name = pull[p].name
      /\ pull'[p].rows = pull[p].rows /\ pull'[p].mode = pull[p].mode /\ pull'[p].known = pull[p].known
      /\ pull'[p].quiet = pull[p].quiet /\ pull'[p].status = pull[p].status
  BY <1>1, <1>2 DEF Becomes, IInv, TypeOK, PullRecord
<1>7. CursorsOk'  BY <1>1 DEF Becomes, pipeline, IInv, CursorsOk, Covered
\* It is not a call that moves a cursor.
<1>8. ~Stateful(p)  BY DEF StatusCounts, PullAt, IInv, PullOk, CoverOk
<1>9. CoverOk(p)'  BY <1>6, <1>8 DEF CoverOk, PullAt, Stateful
<1>10. FreshOk(p)'  BY <1>6, <1>8 DEF FreshOk, Stateful
<1>11. QuietOk(p)'
  <2>1. Counts' = Counts  BY <1>1 DEF Becomes, pipeline, Counts, CountOf
  <2> QED  BY <1>6, <1>8, <2>1 DEF QuietOk, Stateful, DisplayStatus, display
<1> QED  BY <1>4, <1>5, <1>6, <1>7, <1>9, <1>10, <1>11 DEF Moves, PullOk

LEMMA LostMoves ==
  ASSUME IInv, NEW p \in Pullers, PullLost(p)
  PROVE  Moves(p)
<1>1. Becomes(p, Unread) /\ UNCHANGED <<cursor, read, answered>>  BY DEF PullLost, Becomes
<1>2. Unread \in PullRecord  BY UnreadType, CorpusAssumption DEF IInv, TypeOK, Times
<1>3. TypeOK'  BY <1>1, <1>2, BecomesTypes DEF IInv, TypeOK
<1>4. Grows  BY <1>1 DEF Becomes, Grows, IInv, TypeOK
<1>5. pull'[p] = Unread /\ \A q \in Pullers \ {p} : pull'[q] = pull[q]
  BY <1>1 DEF Becomes, IInv, TypeOK
<1>6. CursorsOk'  BY <1>1 DEF Becomes, pipeline, IInv, CursorsOk, Covered
<1> QED  BY <1>3, <1>4, <1>5, <1>6, UnreadOk DEF Moves

-----------------------------------------------------------------------------
(* The steps.                                                              *)

\* The other calls lose nothing by the step of one of them.
LEMMA OthersKeep ==
  ASSUME IInv, Grows, NEW q \in Pullers, pull'[q] = pull[q], TypeOK'
  PROVE  PullOk(q)'
<1>1. PullOk(q) /\ pull[q] \in PullRecord /\ Caller(q) \in Names
  BY DEF IInv, TypeOK, PullRecord, Caller
<1>2. UNCHANGED <<request, item, selected, at, clock>>  BY DEF Grows, pipeline
<1>3. /\ read[Caller(q)] \subseteq read'[Caller(q)]
      /\ cursor[Caller(q)] <= cursor'[Caller(q)] /\ answered[Caller(q)] <= answered'[Caller(q)]
  BY <1>1 DEF Grows
<1>4. CoverOk(q)'
  <2>1. \A t : Covered(Caller(q), t) => \A i \in Items : item'[i] = "deposited" /\ at'[i] <= t => at'[i] \in read'[Caller(q)]
    BY <1>2, <1>3 DEF Covered
  <2>2. \A t \in pull[q].rows : t <= cursor[Caller(q)] => t <= cursor'[Caller(q)]
    BY <1>1, <1>3, CorpusAssumption DEF PullRecord, IInv, TypeOK, Times
  <2> QED  BY <1>1, <2>1, <2>2 DEF PullOk, CoverOk, PullAt, Caller, Stateful, Covered
<1>5. FreshOk(q)'
  <2>1. pull[q].known <= answered[Caller(q)] => pull[q].known <= answered'[Caller(q)]
    BY <1>1, <1>3, CorpusAssumption DEF PullRecord, IInv, TypeOK, Times
  <2> QED  BY <1>1, <2>1 DEF PullOk, FreshOk, PullAt, Caller
<1>6. QuietOk(q)'
  <2>1. Counts' = Counts  BY <1>2 DEF Counts, CountOf
  <2> QED  BY <1>1, <1>2, <1>3, <2>1 DEF PullOk, QuietOk, Caller, Stateful, DisplayStatus
<1> QED  BY <1>4, <1>5, <1>6 DEF PullOk

LEMMA PullStepKeeps ==
  ASSUME IInv, NEW p \in Pullers, PullStep(p)
  PROVE  IInv'
<1>1. Moves(p)
  BY RequestMoves, SinceMoves, RowsMoves, CountsMoves, SaveMoves, AnswerMoves, LostMoves,
     StatusRequestMoves, StatusCountsMoves DEF PullStep
<1>2. ItemsOk'  BY <1>1 DEF Moves, Grows, pipeline, IInv, ItemsOk
<1>3. \A q \in Pullers : PullOk(q)'
  <2>1. SUFFICES ASSUME NEW q \in Pullers PROVE PullOk(q)'  OBVIOUS
  <2>2. CASE q = p  BY <1>1, <2>2 DEF Moves
  <2>3. CASE q # p  BY <1>1, <2>3, OthersKeep DEF Moves
  <2> QED  BY <2>2, <2>3
<1> QED  BY <1>1, <1>2, <1>3 DEF Moves, IInv

\* A step of the pipeline only adds deposits later than all a call knows of.
LEMMA PipelineKeeps ==
  ASSUME IInv, PipelineNext
  PROVE  IInv'
<1>1. TypeOK' /\ clock <= clock' /\ UNCHANGED <<cursor, read, answered>>
  BY PipelineTypes DEF IInv
<1>2. ItemsOk'
  BY CorpusAssumption
     DEF IInv, ItemsOk, TypeOK, Times, PipelineNext, Select, Delete, MarkDeposited, MarkFailed, Reopen,
         UpdateStatus
<1>3. \A i \in Items : item'[i] = "deposited" =>
        at'[i] > clock \/ (item[i] = "deposited" /\ at'[i] = at[i])
  BY CorpusAssumption
     DEF IInv, TypeOK, Times, PipelineNext, Select, Delete, MarkDeposited, MarkFailed, Reopen, UpdateStatus
<1>4. \A n \in Names, t \in 0 .. clock :
        Covered(n, t) => \A i \in Items : item'[i] = "deposited" /\ at'[i] <= t => at'[i] \in read[n]
  <2>1. SUFFICES ASSUME NEW n \in Names, NEW t \in 0 .. clock, Covered(n, t),
                        NEW i \in Items, item'[i] = "deposited", at'[i] <= t
                 PROVE  at'[i] \in read[n]
    OBVIOUS
  <2>2. at'[i] \in Nat /\ clock \in Nat  BY <1>1, CorpusAssumption DEF IInv, TypeOK, Times
  <2>3. ~(at'[i] > clock)  BY <2>1, <2>2
  <2> QED  BY <1>3, <2>1, <2>3 DEF Covered
<1>5. CursorsOk'
  <2>1. \A n \in Names : cursor[n] \in 0 .. clock /\ Covered(n, cursor[n]) /\ answered[n] <= cursor[n]
    BY DEF IInv, CursorsOk, TypeOK
  <2> QED  BY <1>1, <1>4, <2>1 DEF CursorsOk, Covered
<1>6. ASSUME NEW p \in Pullers PROVE PullOk(p)'
  <2>1. PullOk(p) /\ pull[p] \in PullRecord /\ Caller(p) \in Names
    BY DEF IInv, TypeOK, PullRecord, Caller
  <2>2. /\ pull'[p].pc = pull[p].pc /\ pull'[p].name = pull[p].name /\ pull'[p].mode = pull[p].mode
        /\ pull'[p].since = pull[p].since /\ pull'[p].rows = pull[p].rows /\ pull'[p].known = pull[p].known
    BY <2>1, PipelineMoves DEF Disturb, delivery, PullRecord
  <2>3. CoverOk(p)'
    <3>1. pull[p].since \in 0 .. clock /\ \A t \in pull[p].rows : t \in 0 .. clock
      BY <2>1 DEF PullRecord
    <3> QED  BY <1>1, <1>4, <2>1, <2>2, <3>1 DEF PullOk, CoverOk, PullAt, Caller, Stateful, Covered
  <2>4. FreshOk(p)'  BY <1>1, <2>1, <2>2 DEF PullOk, FreshOk, PullAt, Caller
  <2>5. QuietOk(p)'
    <3>1. CASE Disturb
      <4>1. pull'[p].quiet = FALSE  BY <2>1, <3>1 DEF Disturb, PullRecord
      <4> QED  BY <4>1 DEF QuietOk
    <3>2. CASE UNCHANGED <<item, selected, at, clock, delivery>>
      <4>1. Counts' = Counts  BY <3>2 DEF Counts, CountOf
      <4> QED  BY <2>1, <3>2, <4>1 DEF delivery, PullOk, QuietOk, Caller, Stateful, DisplayStatus
    <3> QED  BY <3>1, <3>2, PipelineMoves
  <2> QED  BY <2>3, <2>4, <2>5 DEF PullOk
<1> QED  BY <1>1, <1>2, <1>5, <1>6 DEF IInv

LEMMA InitInv == Init => IInv
<1> SUFFICES ASSUME Init PROVE IInv  OBVIOUS
<1>1. TypeOK  BY InitTypes
<1>2. ItemsOk /\ CursorsOk  BY DEF Init, ItemsOk, CursorsOk, Covered
<1>3. \A p \in Pullers : PullOk(p)
  BY DEF Init, PullOk, CoverOk, FreshOk, QuietOk, PullAt, Stateful, Unread
<1> QED  BY <1>1, <1>2, <1>3 DEF IInv

LEMMA StepInv == IInv /\ [Next]_vars => IInv'
<1> SUFFICES ASSUME IInv, [Next]_vars PROVE IInv'  OBVIOUS
<1>1. CASE PipelineNext  BY <1>1, PipelineKeeps
<1>2. CASE PullNext  BY <1>2, PullStepKeeps DEF PullNext, PullStep
<1>3. CASE UNCHANGED vars
  <2>1. Counts' = Counts  BY <1>3 DEF vars, Counts, CountOf
  <2> QED  BY <1>3, <2>1 DEF vars, IInv, TypeOK, PullRecord, ItemsOk, CursorsOk, Covered, PullOk, CoverOk,
                             FreshOk, QuietOk, PullAt, Stateful, Caller, DisplayStatus
<1> QED  BY <1>1, <1>2, <1>3 DEF Next

THEOREM Invariance == Spec => []IInv
BY InitInv, StepInv, PTL DEF Spec

-----------------------------------------------------------------------------
(* The theorems.                                                           *)

\* get_corpus, the cursors and the pipeline keep their types: no cursor and no
\* call is ahead of the last deposit.
THEOREM Types == Spec => []TypeOK
<1>1. IInv => TypeOK  BY DEF IInv
<1> QED  BY <1>1, Invariance, PTL

\* A cursor never passes over a document: everything deposited up to it has
\* been read by a call of its caller, for any number of concurrent calls.
THEOREM Covering == Spec => []CursorCovered
<1>1. IInv => CursorCovered  BY DEF IInv, CursorsOk, Covered, CursorCovered
<1> QED  BY <1>1, Invariance, PTL

\* only_new does not serve again what had been answered when it began (BUG-25).
THEOREM NoRepetition == Spec => []NoRepeat
<1>1. IInv => NoRepeat  BY DEF IInv, PullOk, FreshOk, NoRepeat
<1> QED  BY <1>1, Invariance, PTL

\* "complete" means that the caller has read every document of the selection,
\* unless something moved between the rows and the counts of the call.
THEOREM Completeness == Spec => []CompleteHasAll
<1>1. IInv => CompleteHasAll
  <2>1. SUFFICES ASSUME IInv, NEW p \in Pullers, PullAt(p, "answer"), Stateful(p), pull[p].quiet,
                        pull[p].status = "acquiring",
                        pull[p].display \in {"completed", "partially_failed"}, NEW i \in selected
                 PROVE  item[i] = "failed" \/ at[i] \in read[Caller(p)]
    BY DEF CompleteHasAll
  <2>2. item[i] # "pending"  BY <2>1, Finished DEF IInv, PullOk, QuietOk, PullAt
  <2>3. item[i] = "deposited" => at[i] \in read[Caller(p)]
    BY <2>1 DEF IInv, TypeOK, PullOk, QuietOk, PullAt
  <2> QED  BY <2>1, <2>2, <2>3 DEF IInv, TypeOK
<1> QED  BY <1>1, Invariance, PTL

\* A status that nothing overtook says "acquiring" exactly as long as a
\* selected item is neither deposited nor failed; with nothing selected it never
\* does (BUG-14).
THEOREM Told == Spec => []StatusTold
<1>1. IInv => StatusTold
  <2>1. SUFFICES ASSUME IInv, NEW p \in Pullers, PullAt(p, "answer"), pull[p].quiet,
                        pull[p].status = "acquiring"
                 PROVE  pull[p].display = "acquiring" <=> \E i \in selected : item[i] = "pending"
    BY DEF StatusTold
  <2>2. pull[p].display = DisplayStatus("acquiring", Counts)
    BY <2>1 DEF IInv, PullOk, QuietOk, PullAt
  <2> QED  BY <2>1, <2>2, Finished DEF IInv
<1> QED  BY <1>1, Invariance, PTL

-----------------------------------------------------------------------------
(* The delivery: every step of the pipeline and of the calls is a step of  *)
(* Delivery or changes nothing in it.                                      *)

\* The rows that a stateful call will answer have been served.
RowsRead == \A p \in Pullers : Stateful(p) => pull[p].rows \subseteq read[Caller(p)]

DeliveryInv == IInv /\ RowsRead

LEMMA RowsReadKept ==
  ASSUME DeliveryInv, [Next]_vars
  PROVE  RowsRead'
<1> SUFFICES ASSUME NEW p \in Pullers, pull'[p].mode \in {"all", "only_new"}
             PROVE  pull'[p].rows \subseteq read'[pull'[p].name]
  BY DEF RowsRead, Stateful, Caller
<1>1. pull[p] \in PullRecord /\ pull \in [Pullers -> PullRecord] /\ Caller(p) \in Names
      /\ read \in [Names -> SUBSET (0 .. clock)]
  BY DEF DeliveryInv, IInv, TypeOK, PullRecord, Caller
<1>2. Stateful(p) => pull[p].rows \subseteq read[Caller(p)]  BY DEF DeliveryInv, RowsRead
<1>3. ASSUME pull'[p].mode = pull[p].mode, pull'[p].name = pull[p].name, pull'[p].rows = pull[p].rows,
             \A n \in Names : read[n] \subseteq read'[n]
      PROVE  pull'[p].rows \subseteq read'[pull'[p].name]
  BY <1>1, <1>2, <1>3 DEF Stateful, Caller
<1>4. CASE PipelineNext
  <2>1. UNCHANGED read  BY <1>4, PipelineTypes DEF DeliveryInv, IInv
  <2>2. pull'[p].mode = pull[p].mode /\ pull'[p].name = pull[p].name /\ pull'[p].rows = pull[p].rows
    BY <1>1, <1>4, PipelineMoves DEF Disturb, delivery, PullRecord
  <2> QED  BY <1>3, <2>1, <2>2
<1>5. CASE UNCHANGED vars  BY <1>3, <1>5 DEF vars
<1>6. ASSUME NEW q \in Pullers, PullStep(q)  PROVE pull'[p].rows \subseteq read'[pull'[p].name]
  <2>1. Moves(q)
    BY <1>6, RequestMoves, SinceMoves, RowsMoves, CountsMoves, SaveMoves, AnswerMoves, LostMoves,
       StatusRequestMoves, StatusCountsMoves DEF PullStep, DeliveryInv
  <2>2. CASE p # q  BY <1>3, <2>1, <2>2 DEF Moves, Grows
  <2>3. CASE p = q /\ PullRows(p)
    <3>1. pull'[p].mode = pull[p].mode /\ pull'[p].name = pull[p].name
          /\ pull'[p].rows = Deposited(pull[p].since)
      BY <1>1, <2>3 DEF PullRows, PullRecord
    <3>2. Deposited(pull[p].since) \subseteq read'[Caller(p)]
      BY <1>1, <2>3, <3>1 DEF PullRows, Stateful
    <3> QED  BY <3>1, <3>2 DEF Caller
  <2>4. CASE p = q /\ (PullSince(p) \/ PullCounts(p) \/ PullSave(p))
    <3>1. pull'[p].mode = pull[p].mode /\ pull'[p].name = pull[p].name /\ pull'[p].rows = pull[p].rows
      BY <1>1, <2>4 DEF PullSince, PullCounts, PullSave, PullRecord
    <3> QED  BY <1>3, <2>1, <3>1 DEF Moves, Grows
  <2>5. CASE p = q /\ ~PullRows(p) /\ ~(PullSince(p) \/ PullCounts(p) \/ PullSave(p))
    <3>1. CASE PullAnswer(p) \/ PullLost(p)
      BY <1>1, <3>1 DEF PullAnswer, PullLost, Unread
    <3>2. CASE StatusRequest(p)  BY <1>1, <3>2 DEF StatusRequest, Unread
    <3>3. CASE StatusCounts(p)
      <4>1. ~Stateful(p)  BY <3>3 DEF StatusCounts, PullAt, DeliveryInv, IInv, PullOk, CoverOk
      <4>2. pull'[p].mode = pull[p].mode  BY <1>1, <3>3 DEF StatusCounts, PullRecord
      <4> QED  BY <4>1, <4>2 DEF Stateful
    <3>4. ASSUME NEW n \in Names, NEW mode \in Modes, NEW since \in Times, PullRequest(p, n, mode, since)
          PROVE  pull'[p].rows \subseteq read'[pull'[p].name]
      BY <1>1, <3>4 DEF PullRequest
    <3> QED  BY <1>6, <2>5, <3>1, <3>2, <3>3, <3>4 DEF PullStep
  <2> QED  BY <2>2, <2>3, <2>4, <2>5
<1> QED  BY <1>4, <1>5, <1>6 DEF Next, PullNext, PullStep

THEOREM DeliveryInvariance == Spec => []DeliveryInv
<1>1. Init => RowsRead  BY DEF Init, RowsRead, Unread
<1>2. DeliveryInv /\ [Next]_vars => DeliveryInv'  BY RowsReadKept, StepInv DEF DeliveryInv
<1> QED  BY <1>1, <1>2, InitInv, PTL DEF Spec, DeliveryInv

\* What the pipeline does to the corpus: a document more, or some fewer.
LEMMA PipelineDelivers ==
  ASSUME IInv, PipelineNext
  PROVE  [Stack!Next]_(Stack!vars)
<1>1. UNCHANGED <<read, cursor>>  BY PipelineTypes DEF IInv
<1>2. ASSUME NEW i \in Items, MarkDeposited(i)  PROVE Stack!Publish
  <2>1. clock' = clock + 1 /\ clock \in Nat  BY <1>2, CorpusAssumption DEF MarkDeposited, IInv, TypeOK, Times
  <2>2. Corpus' = Corpus \cup {clock'}
    <3>1. at'[i] = clock' /\ item'[i] = "deposited" /\ item[i] # "deposited"
      BY <1>2 DEF MarkDeposited, IInv, TypeOK
    <3>2. \A j \in Items \ {i} : at'[j] = at[j] /\ item'[j] = item[j]
      BY <1>2 DEF MarkDeposited, IInv, TypeOK
    <3> QED  BY <3>1, <3>2 DEF Corpus
  <2> QED  BY <1>1, <2>1, <2>2 DEF Stack!Publish
<1>3. ASSUME NEW i \in Items, Select(i) \/ Delete(i) \/ MarkFailed(i) \/ Reopen(i)  PROVE Stack!Withdraw
  <2>1. UNCHANGED clock  BY <1>3 DEF Select, Delete, MarkFailed, Reopen
  <2>2. \A j \in Items : item'[j] = "deposited" => item[j] = "deposited" /\ at'[j] = at[j]
    BY <1>3 DEF Select, Delete, MarkFailed, Reopen, IInv, TypeOK
  <2>3. Corpus' \subseteq Corpus  BY <2>2 DEF Corpus
  <2> QED  BY <1>1, <2>1, <2>3 DEF Stack!Withdraw
<1>4. ASSUME NEW status \in Stored, UpdateStatus(status)  PROVE UNCHANGED Stack!vars
  BY <1>4 DEF UpdateStatus, delivery, Stack!vars, Corpus
<1> QED  BY <1>2, <1>3, <1>4 DEF PipelineNext, Stack!Next

LEMMA RowsDeliver ==
  ASSUME IInv, NEW p \in Pullers, PullRows(p)
  PROVE  [Stack!Next]_(Stack!vars)
<1> DEFINE n == Caller(p)
           since == pull[p].since
<1>1. Corpus' = Corpus /\ UNCHANGED <<clock, cursor>>  BY DEF PullRows, pipeline, Corpus
<1>2. n \in Names /\ since \in Nat  BY DEF IInv, TypeOK, PullRecord, Caller
<1>3. CASE Stateful(p)
  <2>1. read' = [read EXCEPT ![n] = @ \cup Deposited(since)]  BY <1>3 DEF PullRows
  <2>2. Covered(n, since)  BY <1>3 DEF PullRows, IInv, PullOk, CoverOk
  \* What is not behind the position of the call had been read.
  <2>3. read[n] \cup Deposited(since) = read[n] \cup Corpus
    <3>1. Deposited(since) \subseteq Corpus  BY DEF Deposited, Corpus
    <3>2. ASSUME NEW t \in Corpus  PROVE t \in read[n] \/ t \in Deposited(since)
      <4>1. PICK i \in Items : item[i] = "deposited" /\ t = at[i]  BY <3>2 DEF Corpus
      <4>2. at[i] \in Nat  BY <1>2 DEF IInv, TypeOK
      <4>3. at[i] <= since \/ at[i] > since  BY <1>2, <4>2
      <4> QED  BY <2>2, <4>1, <4>3 DEF Covered, Deposited
    <3> QED  BY <3>1, <3>2
  <2>4. Stack!Take(n)  BY <1>1, <2>1, <2>3 DEF Stack!Take
  <2> QED  BY <1>2, <2>4 DEF Stack!Next
<1>4. CASE ~Stateful(p)
  BY <1>1, <1>4 DEF PullRows, Stack!vars
<1> QED  BY <1>3, <1>4

LEMMA SaveDelivers ==
  ASSUME DeliveryInv, NEW p \in Pullers, PullSave(p)
  PROVE  [Stack!Next]_(Stack!vars)
<1> DEFINE n == Caller(p)
<1>1. Corpus' = Corpus /\ UNCHANGED <<clock, read>>  BY DEF PullSave, pipeline, Corpus
<1>2. PICK t \in Times : /\ Latest(p, t)
                         /\ cursor' = [cursor EXCEPT ![n] = IF t > cursor[n] THEN t ELSE cursor[n]]
  BY DEF PullSave
<1>3. n \in Names /\ cursor \in [Names -> 0 .. clock]
  BY DEF DeliveryInv, IInv, TypeOK, PullRecord, Caller
<1>4. Stateful(p)  BY DEF PullSave, DeliveryInv, IInv, PullOk, CoverOk
<1>5. CASE t > cursor[n]
  <2>1. cursor' = [cursor EXCEPT ![n] = t] /\ cursor'[n] = t  BY <1>2, <1>3, <1>5
  <2>2. t \in read[n]  BY <1>2, <1>4 DEF DeliveryInv, RowsRead, Latest
  <2>3. Covered(n, t)  BY <1>2, <1>4 DEF DeliveryInv, IInv, PullOk, CoverOk, PullAt, PullSave, Latest
  <2>4. {u \in Corpus : u <= t} \subseteq read[n]  BY <2>3 DEF Covered, Corpus
  <2>5. Stack!Advance(n)  BY <1>1, <1>5, <2>1, <2>2, <2>4 DEF Stack!Advance
  <2> QED  BY <1>3, <2>5 DEF Stack!Next
<1>6. CASE ~(t > cursor[n])
  <2>1. cursor' = cursor  BY <1>2, <1>3, <1>6
  <2> QED  BY <1>1, <2>1 DEF Stack!vars
<1> QED  BY <1>5, <1>6

LEMMA DeliveryStep == DeliveryInv /\ [Next]_vars => [Stack!Next]_(Stack!vars)
<1> SUFFICES ASSUME DeliveryInv, [Next]_vars PROVE [Stack!Next]_(Stack!vars)  OBVIOUS
<1>1. CASE PipelineNext  BY <1>1, PipelineDelivers DEF DeliveryInv
<1>2. ASSUME NEW p \in Pullers, PullStep(p)  PROVE [Stack!Next]_(Stack!vars)
  <2>1. CASE PullRows(p)  BY <2>1, RowsDeliver DEF DeliveryInv
  <2>2. CASE PullSave(p)  BY <2>2, SaveDelivers
  <2>3. CASE ~PullRows(p) /\ ~PullSave(p)
    <3>1. UNCHANGED <<pipeline, cursor, read>>
      BY <1>2, <2>3 DEF PullStep, PullSince, PullCounts, PullAnswer, PullLost, StatusRequest, StatusCounts,
                        PullRequest
    <3> QED  BY <3>1 DEF pipeline, Stack!vars, Corpus
  <2> QED  BY <2>1, <2>2, <2>3
<1>3. CASE UNCHANGED vars  BY <1>3 DEF vars, Stack!vars, Corpus
<1> QED  BY <1>1, <1>2, <1>3 DEF Next, PullNext, PullStep

\* get_corpus implements the delivery, however the calls of a caller and the
\* deposits interleave: each stateful call catches up with all there is, and a
\* cursor only ever moves forward, over documents its caller has been served.
THEOREM ImplementsDelivery == Spec => DeliverySpec
<1>1. Init => Stack!Init
  BY DEF Init, Stack!Init, Corpus
<1> QED  BY <1>1, DeliveryStep, DeliveryInvariance, PTL DEF Spec, DeliverySpec, Stack!Spec

=============================================================================
