---------------------------- MODULE ReadingProofs ----------------------------
(***************************************************************************)
(* What run control owes the agent of a run, what a poll of its events and *)
(* the map they fill owe its pages, and what the announcements owe all of  *)
(* them.                                                                   *)
(***************************************************************************)
EXTENDS Scoreboard, RunControl, TerrainMap, Announcements, Integers, NaturalsInduction,
        FiniteSetTheorems, SequenceTheorems, TLAPS

-----------------------------------------------------------------------------
(* Counting places                                                         *)

LEMMA SmallerFounds == IsWellFoundedOn({ss \in Nat \X Nat : ss[1] < ss[2]}, Nat)
  BY NatLessThanWellFounded DEF OpToRel

\* A set of naturals has a least element: induction by least counterexample.
LEMMA LeastOf ==
  ASSUME NEW S \in SUBSET Nat, S # {}
  PROVE  \E x \in S : \A y \in S : x <= y
<1> DEFINE R == {ss \in Nat \X Nat : ss[1] < ss[2]}
<1>1. IsWellFoundedOn(R, Nat)
  BY SmallerFounds
<1>2. \A x, y \in Nat : y < x => <<y, x>> \in R
  OBVIOUS
<1> HIDE DEF R
<1>3. PICK x \in S : \A y \in S : ~ (<<y, x>> \in R)
  BY <1>1, WFMin
<1>4. \A y \in S : ~ (y < x)
  BY <1>2, <1>3
<1> QED  BY <1>4

\* A finite set of places has an n-th one, for every n up to its size.
LEMMA NthIsThere ==
  ASSUME NEW S \in SUBSET Nat, IsFiniteSet(S), NEW n \in 1..Cardinality(S)
  PROVE  NthPlace(S, n) \in S
<1> DEFINE UpTo(i) == {j \in S : j <= i}
           Bad == {m \in 1..Cardinality(S) : \A i \in S : Cardinality(UpTo(i)) # m}
<1>1. Cardinality(S) \in Nat
  BY FS_CardinalityType
<1>2. ASSUME Bad # {}  PROVE FALSE
  <2>1. PICK m \in Bad : \A k \in Bad : m <= k
    <3>1. Bad \in SUBSET Nat
      BY <1>1
    <3> HIDE DEF Bad
    <3> QED  BY <1>2, <3>1, LeastOf
  <2>2. m \in 1..Cardinality(S) /\ \A i \in S : Cardinality(UpTo(i)) # m
    OBVIOUS
  <2>3. \E done \in SUBSET S : Cardinality(done) = m - 1 /\ \A x \in done, y \in S \ done : x < y
    <3>1. CASE m = 1
      <4>1. Cardinality({}) = m - 1
        BY <3>1, FS_EmptySet
      <4> QED  BY <4>1
    <3>2. CASE m # 1
      <4>1. m - 1 \in 1..Cardinality(S) /\ m - 1 \notin Bad
        BY <1>1, <2>1, <2>2, <3>2
      <4>2. PICK i \in S : Cardinality(UpTo(i)) = m - 1
        BY <4>1
      <4>3. \A x \in UpTo(i), y \in S \ UpTo(i) : x < y
        OBVIOUS
      <4> QED  BY <4>2, <4>3
    <3> QED  BY <3>1, <3>2
  <2>4. PICK done \in SUBSET S : Cardinality(done) = m - 1 /\ \A x \in done, y \in S \ done : x < y
    BY <2>3
  <2>5. S \ done # {}
    <3>1. Cardinality(done) # Cardinality(S)
      BY <1>1, <2>2, <2>4
    <3>2. S \ done = {} => done = S
      OBVIOUS
    <3> QED  BY <3>1, <3>2
  <2>6. PICK i \in S \ done : \A y \in S \ done : i <= y
    <3>1. S \ done \in SUBSET Nat
      OBVIOUS
    <3> QED  BY <2>5, <3>1, LeastOf
  <2>7. UpTo(i) = done \cup {i}
    <3>1. \A j \in S : j \in Nat
      OBVIOUS
    <3>2. \A j \in S : j <= i <=> j \in done \/ j = i
      BY <2>4, <2>6, <3>1
    <3> QED  BY <2>4, <2>6, <3>2
  <2>8. Cardinality(done \cup {i}) = m
    <3>1. IsFiniteSet(done)
      BY FS_Subset
    <3>2. Cardinality(done \cup {i}) = Cardinality(done) + 1
      BY <2>6, <3>1, FS_AddElement
    <3> QED  BY <1>1, <2>2, <2>4, <3>2
  <2> QED  BY <2>2, <2>6, <2>7, <2>8
<1>3. \E i \in S : Cardinality(UpTo(i)) = n
  BY <1>2
<1> QED  BY <1>3 DEF NthPlace

-----------------------------------------------------------------------------
(* Run control                                                             *)

DeskFields == {"pc", "op", "run", "now", "n", "got"}
Entries == [state : {"created", "xorcising", "terminal", "gone"}, started : Nat, sealed : BOOLEAN,
            policy : Policies]
FactKinds == {Joined, Flowing, <<"mission">>, <<"mint">>}
Subs(policy) ==
  {<<"artifacts">>, <<"complete">>} \cup {<<"intel", i>> : i \in Range(Authored) \cap policy}
JoinerRecs == [run : Played \cup {"none"}, pc : {"idle", "poll", "confirm", "flow"}, left : Int]

SharedTyped ==
  /\ entry \in [Played -> Entries]
  /\ seen \in Seq(Played)
  /\ \A r \in Played : subs[r] \in Seq(Subs(entry[r].policy))
  /\ DOMAIN subs = Played
  /\ facts \in [Played -> Seq(FactKinds)]
  /\ links \subseteq [run : Played, exp : Nat]
  /\ tarball \in [cache : {NoFile, "whole"}, part : [Desks -> {NoFile, "begun", "whole"}]]
  /\ joiner \in [Desks -> JoinerRecs]
  /\ clock \in Nat

ControlTyped == SharedTyped /\ DOMAIN desk = Desks /\ \A d \in Desks : DOMAIN desk[d] = DeskFields

\* A run that is remembered has left `created`; one that has a start had it in time.
StartOK ==
  /\ \A i \in DOMAIN seen : entry[seen[i]].state # "created"
  /\ \A r \in Played : entry[r].started < Deadline \/ entry[r].started = Horizon + 1

\* What a thread was given: a file by a live link of that run, a whole tarball.
SentOK(sent) ==
  /\ sent[1] = "file" => sent[3].run = sent[2] /\ sent[4] <= sent[3].exp /\ sent[3] \in links
  /\ sent[1] = "tgz" => sent[2] = "whole"

\* What a thread holds between two accesses of the database.
DeskOK(d) ==
  /\ desk[d].pc # "idle" => desk[d].run \in Played
  /\ desk[d].pc = "mark" =>
       /\ desk[d].now \in Nat
       /\ desk[d].now < Deadline \/ entry[desk[d].run].state = "gone"
  /\ desk[d].pc = "grant" => desk[d].n \in 1..Cardinality(Allowed(entry[desk[d].run].policy))
  /\ desk[d].pc \in {"budget", "mark", "next"} /\ desk[d].op = "download" => desk[d].got[1] \in links
  /\ desk[d].pc = "note" => desk[d].op \in {"mission", "mint"}
  /\ desk[d].pc = "publish" => tarball.part[d] = "whole"
  /\ desk[d].pc = "idle" /\ desk[d].got # << >> => SentOK(desk[d].got)

\* One thread at a run's joins, and none confirms what is confirmed.
JoinerOK(t) ==
  joiner[t].pc # "idle" =>
    /\ joiner[t].run \in Played
    /\ \A u \in Desks \ {t} : joiner[u].pc = "idle" \/ joiner[u].run # joiner[t].run
    /\ joiner[t].pc = "confirm" => Joined \notin Range(facts[joiner[t].run])

OnceOK ==
  \A r \in Played : \A i, k \in DOMAIN facts[r] : facts[r][i] = Joined /\ facts[r][k] = Joined => i = k

ControlInv ==
  /\ ControlTyped /\ StartOK /\ OnceOK
  /\ \A d \in Desks : DeskOK(d) /\ JoinerOK(d)

LEMMA ControlStarts == RunControlInit => ControlInv
<1> SUFFICES ASSUME RunControlInit  PROVE ControlInv
  OBVIOUS
<1>1. DOMAIN Resting = DeskFields /\ Resting.pc = "idle" /\ Resting.got = << >>
  BY DEF Resting, DeskFields
<1>2. NoPoller \in JoinerRecs /\ NoPoller.pc = "idle"
  BY DEF NoPoller, JoinerRecs
<1>3. entry \in [Played -> Entries] /\ \A r \in Played : entry[r].started = Horizon + 1
  <2>1. Horizon + 1 \in Nat
    BY RunControlAssumption
  <2>2. ASSUME NEW r \in Played  PROVE entry[r] \in Entries /\ entry[r].started = Horizon + 1
    BY <2>1 DEF RunControlInit, Entries
  <2>3. entry = [r \in Played |-> entry[r]]
    BY DEF RunControlInit
  <2> QED  BY <2>2, <2>3
<1>4. tarball \in [cache : {NoFile, "whole"}, part : [Desks -> {NoFile, "begun", "whole"}]]
  BY DEF RunControlInit
<1>5. ControlTyped
  BY <1>1, <1>2, <1>3, <1>4 DEF RunControlInit, ControlTyped, SharedTyped, JoinerRecs
<1>6. StartOK /\ OnceOK
  BY <1>3 DEF RunControlInit, StartOK, OnceOK
<1>7. ASSUME NEW d \in Desks  PROVE DeskOK(d) /\ JoinerOK(d)
  BY <1>1, <1>2 DEF RunControlInit, DeskOK, JoinerOK
<1> QED  BY <1>5, <1>6, <1>7 DEF ControlInv

(***************************************************************************)
(* What a step of a desk leaves alone                                      *)
(***************************************************************************)

\* No run becomes `created`, or comes back from its deletion; its policy stays.
Evolves ==
  /\ entry' \in [Played -> Entries]
  /\ \A r \in Played : /\ entry'[r].policy = entry[r].policy
                       /\ entry[r].state # "created" => entry'[r].state # "created"
                       /\ entry[r].state = "gone" => entry'[r].state = "gone"

\* A desk that is not at it keeps its promise.
LEMMA OthersKeep ==
  ASSUME ControlInv, Evolves, NEW d \in Desks, desk'[d] = desk[d], links \subseteq links',
         tarball'.part[d] = tarball.part[d]
  PROVE  DeskOK(d)'
BY DEF ControlInv, DeskOK, SentOK, Evolves

\* The steps of one desk: what it holds, and what is left of the others.
Sole(d) == DOMAIN desk' = Desks /\ DOMAIN desk'[d] = DeskFields
           /\ \A e \in Desks \ {d} : desk'[e] = desk[e]

LEMMA GoesAlone ==
  ASSUME ControlTyped, NEW d \in Desks, NEW pc, GoesTo(d, pc)
  PROVE  /\ Sole(d)
         /\ desk'[d].pc = pc /\ desk'[d].op = desk[d].op /\ desk'[d].run = desk[d].run
         /\ desk'[d].now = desk[d].now /\ desk'[d].n = desk[d].n /\ desk'[d].got = desk[d].got
BY DEF ControlTyped, GoesTo, Sole, DeskFields

LEMMA ReturnsAlone ==
  ASSUME ControlTyped, NEW d \in Desks, NEW reply, Returns(d, reply)
  PROVE  Sole(d) /\ desk'[d].pc = "idle" /\ desk'[d].got = reply
<1> DEFINE k == [Resting EXCEPT !.got = reply]
<1>1. DOMAIN k = DeskFields /\ k.pc = "idle" /\ k.got = reply
  BY DEF Resting, DeskFields
<1>2. desk' = [desk EXCEPT ![d] = k]
  BY DEF Returns
<1> HIDE DEF k
<1> QED  BY <1>1, <1>2 DEF ControlTyped, Sole

LEMMA StartingAlone ==
  ASSUME ControlTyped, NEW d \in Desks, NEW r \in Played, NEW op, NEW reply, Starting(d, r, op, reply)
  PROVE  /\ Sole(d) /\ desk'[d].pc \in {"budget", "next"} /\ desk'[d].op = op
         /\ desk'[d].run = r /\ desk'[d].got = reply
<1> DEFINE pc == IF r \in Range(seen) THEN "next" ELSE "budget"
           k == [Resting EXCEPT !.pc = pc, !.op = op, !.run = r, !.got = reply]
<1>1. DOMAIN k = DeskFields /\ k.pc = pc /\ k.op = op /\ k.run = r /\ k.got = reply
  BY DEF Resting, DeskFields
<1>2. desk' = [desk EXCEPT ![d] = k] /\ pc \in {"budget", "next"}
  BY DEF Starting
<1> HIDE DEF k, pc
<1> QED  BY <1>1, <1>2 DEF ControlTyped, Sole

LEMMA EndMoved ==
  ASSUME NEW S, NEW s \in Seq(S), NEW r \in Range(s)
  PROVE  /\ MovedToEnd(s, r) \in Seq(S)
         /\ \A i \in DOMAIN MovedToEnd(s, r) : \E k \in DOMAIN s : MovedToEnd(s, r)[i] = s[k]
<1> DEFINE i == CHOOSE i \in DOMAIN s : s[i] = r
           front == SubSeq(s, 1, i - 1)
           back == SubSeq(s, i + 1, Len(s))
<1>1. i \in DOMAIN s /\ s[i] = r
  BY DEF Range
<1>2. Len(s) \in Nat /\ DOMAIN s = 1..Len(s)
  OBVIOUS
<1> HIDE DEF i
<1>3. front \in Seq(S) /\ back \in Seq(S)
  BY <1>1, <1>2
<1>4. \A k \in DOMAIN front : front[k] = s[k] /\ k \in DOMAIN s
  BY <1>1, <1>2
<1>5. \A k \in DOMAIN back : back[k] = s[i + k] /\ i + k \in DOMAIN s
  BY <1>1, <1>2
<1> HIDE DEF front, back
<1>6. MovedToEnd(s, r) = Append(front \o back, r)
  BY DEF MovedToEnd, RemoveAt, i, front, back
<1>7. \A k \in DOMAIN Append(front \o back, r) :
        \/ k \in DOMAIN front /\ Append(front \o back, r)[k] = front[k]
        \/ k - Len(front) \in DOMAIN back /\ Append(front \o back, r)[k] = back[k - Len(front)]
        \/ Append(front \o back, r)[k] = r
  BY <1>1, <1>2, <1>3
<1>8. r \in S
  BY <1>1, <1>2
<1>9. Append(front \o back, r) \in Seq(S)
  BY <1>3, <1>8
<1>10. ASSUME NEW k \in DOMAIN Append(front \o back, r)
       PROVE  \E m \in DOMAIN s : Append(front \o back, r)[k] = s[m]
  BY <1>1, <1>4, <1>5, <1>7
<1> QED  BY <1>6, <1>9, <1>10

\* require_run and note_started.
LEMMA StartingKeeps ==
  ASSUME ControlInv, NEW d \in Desks, NEW r \in Played, NEW op, NEW reply, Starting(d, r, op, reply)
  PROVE  seen' \in Seq(Played) /\ \A i \in DOMAIN seen' : entry[seen'[i]].state # "created"
<1> USE DEF ControlInv, ControlTyped, SharedTyped, StartOK
<1>1. CASE r \in Range(seen)
  <2>1. seen' = MovedToEnd(seen, r)
    BY <1>1 DEF Starting
  <2> QED  BY <1>1, <2>1, EndMoved
<1>2. CASE r \notin Range(seen)
  <2>1. seen' = seen
    BY <1>2 DEF Starting
  <2> QED  BY <2>1
<1> QED  BY <1>1, <1>2

\* What is left to show of a step of one desk.
LEMMA SoleKeeps ==
  ASSUME ControlInv, NEW d \in Desks, Sole(d), DeskOK(d)', Evolves, links \subseteq links',
         \A e \in Desks \ {d} : tarball'.part[e] = tarball.part[e],
         SharedTyped', StartOK', OnceOK', \A t \in Desks : JoinerOK(t)'
  PROVE  ControlInv'
<1>1. ControlTyped'
  BY DEF ControlInv, ControlTyped, Sole
<1>2. ASSUME NEW e \in Desks  PROVE DeskOK(e)'
  <2>1. CASE e = d
    BY <2>1
  <2>2. CASE e # d
    <3>1. desk'[e] = desk[e] /\ tarball'.part[e] = tarball.part[e]
      BY <2>2 DEF Sole
    <3> QED  BY <3>1, OthersKeep
  <2> QED  BY <2>1, <2>2
<1> QED  BY <1>1, <1>2 DEF ControlInv

\* Of one that changes nothing else but the memory and the links.
LEMMA QuietKeeps ==
  ASSUME ControlInv, NEW d \in Desks, Sole(d), DeskOK(d)',
         UNCHANGED <<entry, subs, facts, tarball, joiner, clock>>,
         seen' \in Seq(Played), \A i \in DOMAIN seen' : entry[seen'[i]].state # "created",
         links \subseteq links', links' \subseteq [run : Played, exp : Nat]
  PROVE  ControlInv'
<1>1. Evolves /\ SharedTyped'
  BY DEF Evolves, ControlInv, ControlTyped, SharedTyped
<1>2. StartOK'
  BY DEF ControlInv, StartOK
<1>3. OnceOK' /\ \A t \in Desks : JoinerOK(t)'
  BY DEF ControlInv, OnceOK, JoinerOK
<1> QED  BY <1>1, <1>2, <1>3, SoleKeeps

\* Of one that moves the rows of the runs.
LEMMA EntriesKeep ==
  ASSUME ControlInv, NEW d \in Desks, Sole(d), DeskOK(d)', Evolves, StartOK', seen' \in Seq(Played),
         UNCHANGED <<subs, facts, links, tarball, joiner, clock>>
  PROVE  ControlInv'
<1>1. SharedTyped'
  <2>1. entry' \in [Played -> Entries]
    BY DEF Evolves
  <2>2. \A r \in Played : subs[r] \in Seq(Subs(entry'[r].policy))
    BY DEF Evolves, ControlInv, ControlTyped, SharedTyped
  <2> QED  BY <2>1, <2>2 DEF ControlInv, ControlTyped, SharedTyped
<1>2. OnceOK' /\ \A t \in Desks : JoinerOK(t)'
  BY DEF ControlInv, OnceOK, JoinerOK
<1> QED  BY <1>1, <1>2, SoleKeeps

(***************************************************************************)
(* The steps of a desk                                                     *)
(***************************************************************************)
LEMMA AdmittedKeeps ==
  ASSUME ControlInv, NEW d \in Desks, NEW op \in AskKinds, Admitted(d, op)
  PROVE  ControlInv'
<1>1. ControlTyped /\ SharedTyped
  BY DEF ControlInv, ControlTyped
<1>2. PICK r \in Played : IF Exists(r) \/ op = "export" THEN Starting(d, r, op, << >>)
                          ELSE Returns(d, <<"401">>) /\ UNCHANGED seen
  BY DEF Admitted
<1>3. op # "download"
  BY DEF Admitted, Gated, Joining
<1>4. UNCHANGED <<entry, subs, facts, links, tarball, joiner, clock>>
  BY DEF Admitted
<1>5. CASE Starting(d, r, op, << >>)
  <2>1. DeskOK(d)'
    BY <1>1, <1>3, <1>5, StartingAlone DEF DeskOK
  <2> QED  BY <1>1, <1>4, <1>5, <2>1, StartingAlone, StartingKeeps, QuietKeeps DEF SharedTyped
<1>6. CASE Returns(d, <<"401">>) /\ UNCHANGED seen
  <2>1. DeskOK(d)'
    BY <1>1, <1>6, ReturnsAlone DEF DeskOK, SentOK
  <2>2. seen' \in Seq(Played) /\ \A i \in DOMAIN seen' : entry[seen'[i]].state # "created"
    BY <1>1, <1>6 DEF SharedTyped, ControlInv, StartOK
  <2> QED  BY <1>1, <1>4, <1>6, <2>1, <2>2, ReturnsAlone, QuietKeeps DEF SharedTyped
<1> QED  BY <1>2, <1>5, <1>6

LEMMA DownloadsKeep ==
  ASSUME ControlInv, NEW d \in Desks, Downloads(d)
  PROVE  ControlInv'
<1>1. ControlTyped /\ SharedTyped
  BY DEF ControlInv, ControlTyped
<1>2. PICK r \in Played, link \in links :
        IF Exists(r) THEN Starting(d, r, "download", <<link>>)
        ELSE Returns(d, <<"403">>) /\ UNCHANGED seen
  BY DEF Downloads
<1>3. UNCHANGED <<entry, subs, facts, links, tarball, joiner, clock>>
  BY DEF Downloads
<1>4. CASE Starting(d, r, "download", <<link>>)
  <2>1. DeskOK(d)'
    <3>1. desk'[d].got[1] = link
      BY <1>1, <1>4, StartingAlone
    <3> QED  BY <1>1, <1>3, <1>4, <3>1, StartingAlone DEF DeskOK
  <2> QED  BY <1>1, <1>3, <1>4, <2>1, StartingAlone, StartingKeeps, QuietKeeps DEF SharedTyped
<1>5. CASE Returns(d, <<"403">>) /\ UNCHANGED seen
  <2>1. DeskOK(d)'
    BY <1>1, <1>5, ReturnsAlone DEF DeskOK, SentOK
  <2>2. seen' \in Seq(Played) /\ \A i \in DOMAIN seen' : entry[seen'[i]].state # "created"
    BY <1>1, <1>5 DEF SharedTyped, ControlInv, StartOK
  <2> QED  BY <1>1, <1>3, <1>5, <2>1, <2>2, ReturnsAlone, QuietKeeps DEF SharedTyped
<1> QED  BY <1>2, <1>4, <1>5

\* Every other step that leaves the memory, the rows and the links alone.
LEMMA AskingKeeps ==
  ASSUME ControlInv, NEW d \in Desks,
         CheckBudget(d) \/ CountsIntel(d) \/ Streams(d) \/ Exported(d) \/ Probed(d)
  PROVE  ControlInv'
<1>1. ControlTyped /\ SharedTyped /\ DeskOK(d)
  BY DEF ControlInv, ControlTyped
<1>2. UNCHANGED <<entry, seen, subs, facts, links, tarball, joiner, clock>>
  BY DEF CheckBudget, CountsIntel, Streams, Exported, Probed
<1>3. seen' \in Seq(Played) /\ \A i \in DOMAIN seen' : entry[seen'[i]].state # "created"
  BY <1>1, <1>2 DEF SharedTyped, ControlInv, StartOK
<1>4. Sole(d) /\ DeskOK(d)'
  <2>1. CASE CheckBudget(d)
    <3> DEFINE pc == IF Expired(desk[d].run, clock) THEN "next" ELSE "mark"
               k == [desk[d] EXCEPT !.now = clock, !.pc = pc]
    <3>1. /\ DOMAIN k = DeskFields /\ k.pc = pc /\ k.now = clock /\ k.op = desk[d].op
          /\ k.run = desk[d].run /\ k.got = desk[d].got
      BY <1>1 DEF ControlTyped, DeskFields
    <3>2. desk' = [desk EXCEPT ![d] = k]
      BY <2>1 DEF CheckBudget
    <3>3. /\ pc \in {"next", "mark"}
          /\ pc = "mark" => ~Exists(desk[d].run) \/ ~(clock >= Deadline)
      BY DEF Expired
    <3>4. ~(clock >= Deadline) => clock < Deadline
      BY <1>1 DEF SharedTyped, Deadline
    <3> HIDE DEF k, pc
    <3>5. Sole(d) /\ desk'[d] = k
      BY <1>1, <3>1, <3>2 DEF ControlTyped, Sole
    <3>6. desk[d].pc = "budget" /\ clock \in Nat
      BY <1>1, <2>1 DEF CheckBudget, At, SharedTyped
    <3> QED  BY <1>1, <1>2, <3>1, <3>3, <3>4, <3>5, <3>6 DEF DeskOK, Exists
  <2>2. CASE CountsIntel(d)
    <3>1. CASE Returns(d, <<"exhausted">>)
      <4>1. DeskOK(d)'
        BY <1>1, <3>1, ReturnsAlone DEF DeskOK, SentOK
      <4> QED  BY <1>1, <3>1, <4>1, ReturnsAlone
    <3>2. CASE ~Returns(d, <<"exhausted">>)
      <4> DEFINE r == desk[d].run
                 k == [desk[d] EXCEPT !.pc = "grant", !.n = Granted(r) + 1]
      <4>1. /\ DOMAIN k = DeskFields /\ k.pc = "grant" /\ k.n = Granted(r) + 1
            /\ k.run = desk[d].run /\ k.got = desk[d].got
        BY <1>1 DEF ControlTyped, DeskFields
      <4>2. desk' = [desk EXCEPT ![d] = k] /\ ~(Granted(r) >= Cardinality(Allowed(entry[r].policy)))
        BY <2>2, <3>2 DEF CountsIntel
      <4>3. r \in Played
        BY <1>1, <2>2 DEF CountsIntel, At, DeskOK
      <4> HIDE DEF k
      <4>4. Sole(d) /\ desk'[d] = k
        BY <1>1, <4>1, <4>2 DEF ControlTyped, Sole
      <4>5. Granted(r) \in Nat
        <5>1. /\ DOMAIN subs[r] = 1..Len(subs[r])
              /\ Len(subs[r]) \in Int /\ 1 \in Int
          BY <1>1, <4>3 DEF SharedTyped
        <5>2. IsFiniteSet(1..Len(subs[r]))
          BY <5>1, FS_Interval
        <5>3. IsFiniteSet({i \in DOMAIN subs[r] : subs[r][i][1] = "intel"})
          BY <5>1, <5>2, FS_Subset
        <5> QED  BY <5>3, FS_CardinalityType DEF Granted
      <4>6. Cardinality(Allowed(entry[r].policy)) \in Nat
        <5>1. Len(Authored) \in Nat /\ DOMAIN Authored = 1..Len(Authored)
          BY RunControlAssumption
        <5>2. IsFiniteSet(1..Len(Authored))
          BY <5>1, FS_Interval
        <5>3. IsFiniteSet(Allowed(entry[r].policy))
          BY <5>1, <5>2, FS_Subset DEF Allowed
        <5> QED  BY <5>3, FS_CardinalityType
      <4> HIDE DEF r
      <4>7. Granted(r) + 1 \in 1..Cardinality(Allowed(entry[r].policy))
        BY <4>2, <4>5, <4>6
      <4> QED  BY <1>2, <4>1, <4>3, <4>4, <4>7 DEF DeskOK, r
    <3> QED  BY <3>1, <3>2
  <2>3. CASE Streams(d)
    <3> DEFINE link == desk[d].got[1]
    <3>1. link \in links
      BY <1>1, <2>3 DEF Streams, At, DeskOK
    <3>2. link.exp \in Nat /\ clock \in Nat
      BY <1>1, <3>1 DEF SharedTyped
    <3>3. CASE Returns(d, <<"403">>)
      BY <1>1, <3>3, ReturnsAlone DEF DeskOK, SentOK
    <3>4. CASE ~Returns(d, <<"403">>)
      <4>1. /\ Returns(d, <<"file", desk[d].run, link, clock>>)
            /\ ~(link.exp < clock) /\ [run |-> desk[d].run, exp |-> link.exp] = link
        BY <2>3, <3>4 DEF Streams, Verify
      <4>2. link.run = desk[d].run
        BY <4>1
      <4> HIDE DEF link
      <4>3. SentOK(<<"file", desk[d].run, link, clock>>)
        BY <3>1, <3>2, <4>1, <4>2 DEF SentOK
      <4> QED  BY <1>1, <1>2, <4>1, <4>3, ReturnsAlone DEF DeskOK, SentOK
    <3> QED  BY <3>3, <3>4
  <2>4. CASE Exported(d)
    BY <1>1, <2>4, ReturnsAlone DEF Exported, DeskOK
  <2>5. CASE Probed(d)
    <3>1. CASE Returns(d, <<"409">>)
      BY <1>1, <3>1, ReturnsAlone DEF DeskOK, SentOK
    <3>2. CASE ~Returns(d, <<"409">>)
      <4>1. PICK r \in Played : desk' = [desk EXCEPT ![d] = [Resting EXCEPT !.pc = "next", !.op = "alive",
                                                                         !.run = r]]
        BY <2>5, <3>2 DEF Probed
      <4> DEFINE k == [Resting EXCEPT !.pc = "next", !.op = "alive", !.run = r]
      <4>2. DOMAIN k = DeskFields /\ k.pc = "next" /\ k.op = "alive" /\ k.run = r
        BY DEF Resting, DeskFields
      <4>3. desk' = [desk EXCEPT ![d] = k]
        BY <4>1
      <4> HIDE DEF k
      <4>4. Sole(d) /\ desk'[d] = k
        BY <1>1, <4>2, <4>3 DEF ControlTyped, Sole
      <4> QED  BY <4>2, <4>4 DEF DeskOK
    <3> QED  BY <3>1, <3>2
  <2> QED  BY <2>1, <2>2, <2>3, <2>4, <2>5
<1> QED  BY <1>1, <1>2, <1>3, <1>4, QuietKeeps DEF SharedTyped

LEMMA ServesKeeps ==
  ASSUME ControlInv, NEW d \in Desks, Serves(d)
  PROVE  ControlInv'
<1> DEFINE r == desk[d].run
<1>1. ControlTyped /\ SharedTyped /\ DeskOK(d)
  BY DEF ControlInv, ControlTyped
<1>2. r \in Played /\ desk[d].op \in {"mission", "mint"}
  BY <1>1 DEF Serves, At, DeskOK
<1>3. links \subseteq links' /\ links' \subseteq [run : Played, exp : Nat]
  <2>1. clock + LinkTtl \in Nat /\ links \subseteq [run : Played, exp : Nat]
    BY <1>1 DEF SharedTyped, LinkTtl
  <2>2. links' = links \/ links' = links \cup {[run |-> r, exp |-> clock + LinkTtl]}
    BY DEF Serves
  <2> HIDE DEF r
  <2> QED  BY <1>2, <2>1, <2>2
<1>4. UNCHANGED <<entry, seen, subs, facts, tarball, joiner, clock>>
  BY DEF Serves
<1>5. Sole(d) /\ DeskOK(d)'
  <2>1. CASE Returns(d, <<"200">>)
    <3>1. DeskOK(d)'
      BY <1>1, <2>1, ReturnsAlone DEF DeskOK, SentOK
    <3> QED  BY <1>1, <2>1, <3>1, ReturnsAlone
  <2>2. CASE GoesTo(d, "note")
    BY <1>1, <1>2, <2>2, GoesAlone DEF DeskOK
  <2> QED  BY <2>1, <2>2 DEF Serves
<1>6. seen' \in Seq(Played) /\ \A i \in DOMAIN seen' : entry[seen'[i]].state # "created"
  BY <1>1, <1>4 DEF SharedTyped, ControlInv, StartOK
<1> QED  BY <1>3, <1>4, <1>5, <1>6, QuietKeeps

LEMMA MarkKeeps ==
  ASSUME ControlInv, NEW d \in Desks, MarkStarted(d)
  PROVE  ControlInv'
<1> DEFINE r == desk[d].run
<1>1. ControlTyped /\ SharedTyped /\ DeskOK(d) /\ StartOK
  BY DEF ControlInv, ControlTyped
<1>2. desk[d].pc = "mark" /\ GoesTo(d, "next") /\ UNCHANGED <<subs, facts, links, tarball, joiner, clock>>
  BY DEF MarkStarted, At
<1>3. r \in Played /\ desk[d].now \in Nat /\ (desk[d].now < Deadline \/ entry[r].state = "gone")
  BY <1>1, <1>2 DEF DeskOK
<1>4. PICK written \in BOOLEAN :
        /\ entry' = IF written /\ entry[r].state = "created"
                    THEN [entry EXCEPT ![r].state = "xorcising", ![r].started = desk[d].now]
                    ELSE entry
        /\ seen' = Recalled(seen, r, written)
  BY DEF MarkStarted, StartedAt
<1> DEFINE begun == [entry[r] EXCEPT !.state = "xorcising", !.started = desk[d].now]
<1>5. entry[r] \in Entries
  BY <1>1, <1>3 DEF SharedTyped
<1>6. /\ begun \in Entries /\ begun.state = "xorcising" /\ begun.started = desk[d].now
      /\ begun.policy = entry[r].policy
  BY <1>3, <1>5 DEF Entries
<1>7. \/ entry' = [entry EXCEPT ![r] = begun] /\ written /\ entry[r].state = "created"
      \/ entry' = entry
  BY <1>4
<1>8. written => entry'[r].state # "created"
  <2>1. CASE entry[r].state = "created" /\ written
    <3>1. entry' = [entry EXCEPT ![r] = begun]
      BY <1>4, <2>1
    <3> HIDE DEF begun
    <3> QED  BY <1>1, <1>3, <1>6, <3>1 DEF SharedTyped
  <2>2. CASE entry[r].state # "created"
    BY <1>7, <2>2
  <2> QED  BY <2>1, <2>2
<1> HIDE DEF begun, r
<1>9. Evolves
  <2>1. CASE entry' = entry
    BY <1>1, <2>1 DEF Evolves, SharedTyped
  <2>2. CASE entry' = [entry EXCEPT ![r] = begun] /\ entry[r].state = "created"
    <3>1. entry' \in [Played -> Entries]
      BY <1>1, <1>3, <1>6, <2>2 DEF SharedTyped
    <3> QED  BY <1>1, <1>3, <1>6, <2>2, <3>1 DEF Evolves, SharedTyped
  <2> QED  BY <1>7, <2>1, <2>2
<1>10. \A q \in Played : entry'[q].started < Deadline \/ entry'[q].started = Horizon + 1
  <2>1. CASE entry' = entry
    BY <1>1, <2>1 DEF StartOK
  <2>2. CASE entry' = [entry EXCEPT ![r] = begun] /\ entry[r].state = "created"
    BY <1>1, <1>3, <1>6, <2>2 DEF StartOK, SharedTyped
  <2> QED  BY <1>7, <2>1, <2>2
<1>11. /\ seen' \in Seq(Played)
       /\ \A i \in DOMAIN seen' : (\E k \in DOMAIN seen : seen'[i] = seen[k]) \/ (written /\ seen'[i] = r)
  <2>1. seen \in Seq(Played)
    BY <1>1 DEF SharedTyped
  <2>2. CASE seen' = seen
    BY <2>1, <2>2
  <2>3. CASE written /\ seen' = Append(Tail(seen), r) /\ Len(seen) = SeenMax
    <3>1. seen # << >>
      BY <2>1, <2>3, RunControlAssumption
    <3>2. Tail(seen) \in Seq(Played) /\ \A i \in DOMAIN Tail(seen) : Tail(seen)[i] = seen[i + 1] /\ i + 1 \in DOMAIN seen
      BY <2>1, <3>1
    <3>3. \A i \in DOMAIN Append(Tail(seen), r) :
            \/ i \in DOMAIN Tail(seen) /\ Append(Tail(seen), r)[i] = Tail(seen)[i]
            \/ Append(Tail(seen), r)[i] = r
      BY <1>3, <3>2
    <3> QED  BY <1>3, <2>3, <3>2, <3>3
  <2>4. CASE written /\ seen' = Append(seen, r)
    BY <1>3, <2>1, <2>4
  <2> QED  BY <1>4, <2>2, <2>3, <2>4 DEF Recalled
<1>12. StartOK'
  <2>1. \A i \in DOMAIN seen' : entry'[seen'[i]].state # "created"
    <3>1. \A k \in DOMAIN seen : seen[k] \in Played /\ entry[seen[k]].state # "created"
      BY <1>1 DEF StartOK, SharedTyped
    <3> QED  BY <1>8, <1>9, <1>11, <3>1 DEF Evolves, r
  <2> QED  BY <1>10, <2>1 DEF StartOK
<1>13. Sole(d) /\ DeskOK(d)'
  BY <1>1, <1>2, GoesAlone DEF DeskOK
<1> QED  BY <1>2, <1>9, <1>11, <1>12, <1>13, EntriesKeep

LEMMA EndingEvolves ==
  ASSUME ControlInv, NEW r \in Played, Exists(r), entry' = Ending(r), seen' = seen
  PROVE  Evolves /\ StartOK' /\ seen' \in Seq(Played)
<1>1. entry \in [Played -> Entries] /\ entry[r] \in Entries /\ seen \in Seq(Played)
  BY DEF ControlInv, ControlTyped, SharedTyped
<1> DEFINE over == [entry[r] EXCEPT !.state = "terminal"]
<1>2. /\ over \in Entries /\ over.state = "terminal" /\ over.started = entry[r].started
      /\ over.policy = entry[r].policy
  BY <1>1 DEF Entries
<1>3. entry' = [entry EXCEPT ![r] = over]
  BY DEF Ending
<1> HIDE DEF over
<1>4. entry' \in [Played -> Entries]
  BY <1>1, <1>2, <1>3
<1>5. Evolves
  BY <1>1, <1>2, <1>3, <1>4 DEF Evolves, Exists
<1>6. \A q \in Played : entry'[q].started = entry[q].started
  BY <1>1, <1>2, <1>3
<1>7. \A k \in DOMAIN seen : seen[k] \in Played
  BY <1>1
<1> QED  BY <1>1, <1>5, <1>6, <1>7 DEF StartOK, ControlInv, Evolves

LEMMA RowsStay ==
  ASSUME ControlInv, UNCHANGED <<entry, seen>>
  PROVE  Evolves /\ StartOK' /\ seen' \in Seq(Played)
BY DEF ControlInv, ControlTyped, SharedTyped, Evolves, StartOK

LEMMA GateKeeps ==
  ASSUME ControlInv, NEW d \in Desks, Gate(d) \/ Completes(d)
  PROVE  ControlInv'
<1> DEFINE r == desk[d].run
<1>1. ControlTyped /\ DeskOK(d)
  BY DEF ControlInv
<1>2. r \in Played
  BY <1>1 DEF Gate, Completes, At, DeskOK
<1>3. /\ UNCHANGED <<seen, subs, facts, links, tarball, joiner, clock>>
      /\ (entry' = Ending(r) /\ Exists(r)) \/ entry' = entry
  BY DEF Gate, Completes, Expired
<1>4. Evolves /\ StartOK' /\ seen' \in Seq(Played)
  BY <1>2, <1>3, EndingEvolves, RowsStay
<1>5. Sole(d) /\ DeskOK(d)'
  <2>1. CASE GoesTo(d, "act")
    BY <1>1, <1>2, <2>1, GoesAlone DEF DeskOK
  <2>2. ASSUME NEW code \in {"409", "204", "200"}, Returns(d, <<code>>)  PROVE Sole(d) /\ DeskOK(d)'
    <3>1. DeskOK(d)'
      BY <1>1, <2>2, ReturnsAlone DEF DeskOK, SentOK
    <3> QED  BY <1>1, <2>2, <3>1, ReturnsAlone
  <2>3. GoesTo(d, "act") \/ \E code \in {"409", "204", "200"} : Returns(d, <<code>>)
    BY DEF Gate, Completes
  <2> QED  BY <2>1, <2>2, <2>3
<1> QED  BY <1>3, <1>4, <1>5, EntriesKeep

\* Of one that records a submission.
LEMMA SubmittedKeeps ==
  ASSUME ControlInv, NEW d \in Desks, NEW what \in Subs(entry[desk[d].run].policy),
         desk[d].run \in Played, Submit(desk[d].run, what), Sole(d), DeskOK(d)',
         UNCHANGED <<entry, seen, facts, links, tarball, joiner, clock>>
  PROVE  ControlInv'
<1> DEFINE r == desk[d].run
           longer == Append(subs[r], what)
<1>1. SharedTyped
  BY DEF ControlInv, ControlTyped
<1>2. longer \in Seq(Subs(entry[r].policy))
  BY <1>1 DEF SharedTyped
<1>3. subs' = [subs EXCEPT ![r] = longer]
  BY DEF Submit
<1> HIDE DEF longer
<1>4. DOMAIN subs' = Played /\ \A q \in Played : subs'[q] \in Seq(Subs(entry[q].policy))
  BY <1>1, <1>2, <1>3 DEF SharedTyped
<1>5. SharedTyped'
  BY <1>1, <1>4 DEF SharedTyped
<1>6. Evolves /\ StartOK'
  BY RowsStay
<1>7. OnceOK' /\ \A t \in Desks : JoinerOK(t)'
  BY DEF ControlInv, OnceOK, JoinerOK
<1> QED  BY <1>5, <1>6, <1>7, SoleKeeps

LEMMA SubmitsKeep ==
  ASSUME ControlInv, NEW d \in Desks, Submits(d)
  PROVE  ControlInv'
<1>1. ControlTyped /\ DeskOK(d)
  BY DEF ControlInv
<1>2. desk[d].run \in Played
  BY <1>1 DEF Submits, At, DeskOK
<1>3. <<desk[d].op>> \in Subs(entry[desk[d].run].policy)
  BY DEF Submits, Subs
<1>4. Sole(d) /\ DeskOK(d)'
  <2>1. CASE GoesTo(d, "close")
    BY <1>1, <1>2, <2>1, GoesAlone DEF DeskOK
  <2>2. CASE Returns(d, <<"200">>)
    <3>1. DeskOK(d)'
      BY <1>1, <2>2, ReturnsAlone DEF DeskOK, SentOK
    <3> QED  BY <1>1, <2>2, <3>1, ReturnsAlone
  <2> QED  BY <2>1, <2>2 DEF Submits
<1>5. Submit(desk[d].run, <<desk[d].op>>) /\ UNCHANGED <<entry, seen, facts, links, tarball, joiner, clock>>
  BY DEF Submits
<1> QED  BY <1>2, <1>3, <1>4, <1>5, SubmittedKeeps

LEMMA GrantsKeep ==
  ASSUME ControlInv, NEW d \in Desks, GrantsIntel(d)
  PROVE  ControlInv'
<1> DEFINE policy == entry[desk[d].run].policy
           place == NthPlace(Allowed(policy), desk[d].n)
<1>1. ControlTyped /\ DeskOK(d)
  BY DEF ControlInv
<1>2. desk[d].run \in Played /\ desk[d].n \in 1..Cardinality(Allowed(policy))
  BY <1>1 DEF GrantsIntel, At, DeskOK
<1>3. place \in Allowed(policy)
  <2>1. Len(Authored) \in Nat /\ DOMAIN Authored = 1..Len(Authored)
    BY RunControlAssumption
  <2>2. Allowed(policy) \in SUBSET Nat /\ Allowed(policy) \in SUBSET (1..Len(Authored))
    BY <2>1 DEF Allowed
  <2>3. IsFiniteSet(Allowed(policy))
    <3>1. IsFiniteSet(1..Len(Authored))
      BY <2>1, FS_Interval
    <3> HIDE DEF policy
    <3> QED  BY <2>2, <3>1, FS_Subset
  <2> HIDE DEF policy
  <2> QED  BY <1>2, <2>2, <2>3, NthIsThere
<1>4. <<"intel", Authored[place]>> \in Subs(policy)
  <2>1. Authored[place] \in Range(Authored) \cap policy
    BY <1>3 DEF Allowed, Range
  <2> HIDE DEF policy, place
  <2> QED  BY <2>1 DEF Subs
<1>5. /\ Submit(desk[d].run, <<"intel", Authored[place]>>)
      /\ Returns(d, <<"intel", Authored[place]>>)
      /\ UNCHANGED <<entry, seen, facts, links, tarball, joiner, clock>>
  BY DEF GrantsIntel
<1> HIDE DEF place
<1>6. DeskOK(d)'
  BY <1>1, <1>5, ReturnsAlone DEF DeskOK, SentOK
<1> QED  BY <1>1, <1>2, <1>4, <1>5, <1>6, ReturnsAlone, SubmittedKeeps

(***************************************************************************)
(* The facts of a run, and the threads that wait for its agent             *)
(***************************************************************************)

\* One more fact, or none: nothing is joined that was not, unless this is the fact.
LEMMA FactNoted ==
  ASSUME ControlInv, NEW r \in Played, NEW fact \in FactKinds, facts' = Facts(r, fact),
         fact = Joined => Joined \notin Range(facts[r])
  PROVE  /\ facts' \in [Played -> Seq(FactKinds)]
         /\ OnceOK'
         /\ \A q \in Played : Joined \in Range(facts'[q]) =>
              Joined \in Range(facts[q]) \/ (q = r /\ fact = Joined)
<1>1. facts \in [Played -> Seq(FactKinds)] /\ OnceOK
  BY DEF ControlInv, ControlTyped, SharedTyped
<1>2. CASE facts' = facts
  BY <1>1, <1>2 DEF OnceOK
<1>3. CASE facts' = [facts EXCEPT ![r] = Append(facts[r], fact)]
  <2> DEFINE more == Append(facts[r], fact)
  <2>1. /\ more \in Seq(FactKinds)
        /\ \A i \in DOMAIN more : \/ i \in DOMAIN facts[r] /\ more[i] = facts[r][i]
                                  \/ i = Len(facts[r]) + 1 /\ more[i] = fact
    BY <1>1
  <2>2. \A i, k \in DOMAIN more : more[i] = Joined /\ more[k] = Joined => i = k
    <3>1. \A i \in DOMAIN facts[r] : facts[r][i] \in Range(facts[r])
      BY DEF Range
    <3>2. \A i, k \in DOMAIN facts[r] : facts[r][i] = Joined /\ facts[r][k] = Joined => i = k
      BY <1>1 DEF OnceOK
    <3> HIDE DEF more
    <3> QED  BY <2>1, <3>1, <3>2
  <2>3. Joined \in Range(more) => Joined \in Range(facts[r]) \/ fact = Joined
    <3> HIDE DEF more
    <3> QED  BY <2>1 DEF Range
  <2>4. facts' = [facts EXCEPT ![r] = more]
    BY <1>3
  <2> HIDE DEF more
  <2>5. facts' \in [Played -> Seq(FactKinds)]
    BY <1>1, <2>1, <2>4
  <2>6. \A q \in Played : facts'[q] = IF q = r THEN more ELSE facts[q]
    BY <1>1, <2>4
  <2>7. OnceOK'
    BY <1>1, <2>2, <2>6 DEF OnceOK
  <2> QED  BY <2>3, <2>5, <2>6, <2>7
<1> QED  BY <1>2, <1>3 DEF Facts

LEMMA NotesKeep ==
  ASSUME ControlInv, NEW d \in Desks, Notes(d)
  PROVE  ControlInv'
<1> DEFINE r == desk[d].run
           fact == <<desk[d].op>>
<1>1. ControlTyped /\ SharedTyped /\ DeskOK(d)
  BY DEF ControlInv, ControlTyped
<1>2. r \in Played /\ fact \in FactKinds /\ fact # Joined
  <2>1. r \in Played /\ desk[d].op \in {"mission", "mint"}
    BY <1>1 DEF Notes, At, DeskOK
  <2>2. <<"mission">> # Joined /\ <<"mint">> # Joined
    BY DEF Joined
  <2> QED  BY <2>1, <2>2 DEF FactKinds
<1>3. /\ facts' = Facts(r, fact) /\ Returns(d, <<"200">>)
      /\ UNCHANGED <<entry, seen, subs, links, tarball, joiner, clock>>
  BY DEF Notes
<1> HIDE DEF r, fact
<1>4. /\ facts' \in [Played -> Seq(FactKinds)] /\ OnceOK'
      /\ \A q \in Played : Joined \in Range(facts'[q]) => Joined \in Range(facts[q])
  BY <1>2, <1>3, FactNoted
<1>5. SharedTyped'
  BY <1>1, <1>3, <1>4 DEF SharedTyped
<1>6. Evolves /\ StartOK'
  BY <1>3, RowsStay
<1>7. ASSUME NEW t \in Desks  PROVE JoinerOK(t)'
  BY <1>3, <1>4 DEF ControlInv, JoinerOK
<1>8. DeskOK(d)'
  BY <1>1, <1>3, ReturnsAlone DEF DeskOK, SentOK
<1> QED  BY <1>1, <1>3, <1>4, <1>5, <1>6, <1>7, <1>8, ReturnsAlone, SoleKeeps

LEMMA TarballKeeps ==
  ASSUME ControlInv, NEW d \in Desks, OpensTarball(d) \/ Fetches(d) \/ Renames(d)
  PROVE  ControlInv'
<1> DEFINE Balls == [cache : {NoFile, "whole"}, part : [Desks -> {NoFile, "begun", "whole"}]]
<1>1. ControlTyped /\ SharedTyped /\ DeskOK(d) /\ tarball \in Balls
  BY DEF ControlInv, ControlTyped, SharedTyped
<1>2. UNCHANGED <<entry, seen, subs, facts, links, joiner, clock>>
  BY DEF OpensTarball, Fetches, Renames
<1>3. \A state \in {NoFile, "begun", "whole"} :
        LET ball == [tarball EXCEPT !.part[d] = state]
        IN ball \in Balls /\ ball.part[d] = state /\ \A e \in Desks \ {d} : ball.part[e] = tarball.part[e]
  BY <1>1
<1>4. /\ tarball' \in Balls /\ \A e \in Desks \ {d} : tarball'.part[e] = tarball.part[e]
      /\ Sole(d) /\ DeskOK(d)'
  <2>1. CASE OpensTarball(d)
    <3>1. CASE tarball.cache # NoFile
      <4>1. Returns(d, <<"tgz", "whole">>) /\ tarball' = tarball
        BY <1>1, <2>1, <3>1 DEF OpensTarball
      <4>2. DeskOK(d)'
        BY <1>1, <4>1, ReturnsAlone DEF DeskOK, SentOK
      <4> QED  BY <1>1, <4>1, <4>2, ReturnsAlone
    <3>2. CASE tarball.cache = NoFile
      <4>1. GoesTo(d, "fetch") /\ tarball' = [tarball EXCEPT !.part[d] = "begun"]
        BY <2>1, <3>2 DEF OpensTarball, PartOf
      <4>2. desk[d].run \in Played
        BY <1>1, <2>1 DEF OpensTarball, At, DeskOK
      <4>3. Sole(d) /\ DeskOK(d)'
        BY <1>1, <4>1, <4>2, GoesAlone DEF DeskOK
      <4> QED  BY <1>3, <4>1, <4>3
    <3> QED  BY <3>1, <3>2
  <2>2. CASE Fetches(d)
    <3>0. desk[d].run \in Played
      BY <1>1, <2>2 DEF Fetches, At, DeskOK
    <3>1. CASE GoesTo(d, "publish") /\ tarball' = [tarball EXCEPT !.part[d] = "whole"]
      <4>1. tarball'.part[d] = "whole"
        BY <1>3, <3>1
      <4>2. Sole(d) /\ DeskOK(d)'
        BY <1>1, <3>0, <3>1, <4>1, GoesAlone DEF DeskOK
      <4> QED  BY <1>3, <3>1, <4>2
    <3>2. CASE Returns(d, <<"502">>) /\ tarball' = [tarball EXCEPT !.part[d] = NoFile]
      <4>1. DeskOK(d)'
        BY <1>1, <3>2, ReturnsAlone DEF DeskOK, SentOK
      <4> QED  BY <1>1, <1>3, <3>2, <4>1, ReturnsAlone
    <3> QED  BY <2>2, <3>1, <3>2 DEF Fetches, PartOf
  <2>3. CASE Renames(d)
    <3>1. tarball.part[d] = "whole"
      BY <1>1, <2>3 DEF Renames, At, DeskOK
    <3> DEFINE parts == [tarball.part EXCEPT ![d] = NoFile]
    <3>2. /\ parts \in [Desks -> {NoFile, "begun", "whole"}]
          /\ \A e \in Desks \ {d} : parts[e] = tarball.part[e]
      BY <1>1
    <3>3. tarball' = [cache |-> "whole", part |-> parts] /\ Returns(d, <<"tgz", tarball'.cache>>)
      BY <2>3, <3>1 DEF Renames, PartOf
    <3> HIDE DEF parts
    <3>4. tarball' \in Balls /\ tarball'.cache = "whole" /\ tarball'.part = parts
      BY <3>2, <3>3
    <3>5. Returns(d, <<"tgz", "whole">>)
      BY <3>3, <3>4
    <3>6. DeskOK(d)'
      BY <1>1, <3>5, ReturnsAlone DEF DeskOK, SentOK
    <3> QED  BY <1>1, <3>2, <3>4, <3>5, <3>6, ReturnsAlone
  <2> QED  BY <2>1, <2>2, <2>3
<1>5. SharedTyped'
  BY <1>1, <1>2, <1>4 DEF SharedTyped
<1>6. Evolves /\ StartOK'
  BY <1>2, RowsStay
<1>7. OnceOK' /\ \A t \in Desks : JoinerOK(t)'
  BY <1>2 DEF ControlInv, OnceOK, JoinerOK
<1> QED  BY <1>2, <1>4, <1>5, <1>6, <1>7, SoleKeeps

LEMMA ConnectsKeep ==
  ASSUME ControlInv, NEW d \in Desks, Connects(d)
  PROVE  ControlInv'
<1> DEFINE r == desk[d].run
           begun == [run |-> r, pc |-> "poll", left |-> PollAttempts]
<1>1. ControlTyped /\ SharedTyped /\ DeskOK(d)
  BY DEF ControlInv, ControlTyped
<1>2. r \in Played
  BY <1>1 DEF Connects, At, DeskOK
<1>3. /\ Returns(d, <<"200">>)
      /\ UNCHANGED <<entry, seen, subs, facts, links, tarball, clock>>
      /\ \/ joiner' = joiner
         \/ \E t \in Desks : NotPolled(r) /\ joiner' = [joiner EXCEPT ![t] = begun]
  BY DEF Connects
<1>4. begun \in JoinerRecs /\ begun.run = r /\ begun.pc = "poll"
  BY <1>2, RunControlAssumption DEF JoinerRecs
<1> HIDE DEF r, begun
<1>5. joiner' \in [Desks -> JoinerRecs] /\ \A t \in Desks : JoinerOK(t)'
  <2>1. CASE joiner' = joiner
    BY <1>1, <1>3, <2>1 DEF SharedTyped, ControlInv, JoinerOK
  <2>2. ASSUME NEW t \in Desks, NotPolled(r), joiner' = [joiner EXCEPT ![t] = begun]
        PROVE  joiner' \in [Desks -> JoinerRecs] /\ \A u \in Desks : JoinerOK(u)'
    <3>1. joiner \in [Desks -> JoinerRecs] /\ \A u \in Desks : JoinerOK(u) /\ joiner[u].run # r
      BY <1>1, <2>2 DEF SharedTyped, ControlInv, NotPolled
    <3>2. joiner' \in [Desks -> JoinerRecs] /\ \A u \in Desks : joiner'[u] = IF u = t THEN begun ELSE joiner[u]
      BY <1>4, <2>2, <3>1
    <3>3. ASSUME NEW u \in Desks  PROVE JoinerOK(u)'
      BY <1>2, <1>3, <1>4, <3>1, <3>2 DEF JoinerOK
    <3> QED  BY <3>2, <3>3
  <2> QED  BY <1>3, <2>1, <2>2
<1>6. SharedTyped'
  BY <1>1, <1>3, <1>5 DEF SharedTyped
<1>7. Evolves /\ StartOK' /\ OnceOK'
  BY <1>3, RowsStay DEF ControlInv, OnceOK
<1>8. DeskOK(d)'
  BY <1>1, <1>3, ReturnsAlone DEF DeskOK, SentOK
<1> QED  BY <1>1, <1>3, <1>5, <1>6, <1>7, <1>8, ReturnsAlone, SoleKeeps

\* A step at which no desk moves.
LEMMA DesksStay ==
  ASSUME ControlInv, UNCHANGED <<desk, links, tarball>>, Evolves, SharedTyped', StartOK', OnceOK',
         \A t \in Desks : JoinerOK(t)'
  PROVE  ControlInv'
<1>1. ASSUME NEW e \in Desks  PROVE DeskOK(e)'
  BY OthersKeep
<1>2. ControlTyped'
  BY DEF ControlInv, ControlTyped
<1> QED  BY <1>1, <1>2 DEF ControlInv

\* A thread that waits goes on, and the facts of its run with it.
LEMMA JoinerMoves ==
  ASSUME ControlInv, NEW t \in Desks, NEW k \in JoinerRecs, joiner' = [joiner EXCEPT ![t] = k],
         joiner[t].pc # "idle", k.pc # "idle" => k.run = joiner[t].run,
         facts' \in [Played -> Seq(FactKinds)], OnceOK',
         \A q \in Played : Joined \in Range(facts'[q]) =>
            Joined \in Range(facts[q]) \/ q = joiner[t].run,
         k.pc = "confirm" => facts' = facts /\ Joined \notin Range(facts[joiner[t].run]),
         UNCHANGED <<entry, seen, subs, desk, links, tarball, clock>>
  PROVE  ControlInv'
<1>1. SharedTyped /\ joiner \in [Desks -> JoinerRecs] /\ \A u \in Desks : JoinerOK(u)
  BY DEF ControlInv, ControlTyped, SharedTyped
<1>2. joiner' \in [Desks -> JoinerRecs] /\ \A u \in Desks : joiner'[u] = IF u = t THEN k ELSE joiner[u]
  BY <1>1
<1>3. ASSUME NEW u \in Desks  PROVE JoinerOK(u)'
  BY <1>1, <1>2 DEF JoinerOK
<1>4. SharedTyped'
  BY <1>1, <1>2 DEF SharedTyped
<1>5. Evolves /\ StartOK'
  BY RowsStay
<1> QED  BY <1>3, <1>4, <1>5, DesksStay

LEMMA NoPollerIsOne == NoPoller \in JoinerRecs /\ NoPoller.pc = "idle"
BY DEF NoPoller, JoinerRecs

LEMMA PollsKeep ==
  ASSUME ControlInv, NEW t \in Desks, Polls(t)
  PROVE  ControlInv'
<1> DEFINE r == joiner[t].run
           asks == Joined \notin Range(facts[r]) /\ r \in tailnet
           k == IF entry[r].sealed THEN NoPoller
                ELSE [joiner[t] EXCEPT !.pc = IF asks THEN "confirm" ELSE "flow"]
<1>1. /\ joiner[t] \in JoinerRecs /\ facts \in [Played -> Seq(FactKinds)] /\ OnceOK
  BY DEF ControlInv, ControlTyped, SharedTyped
<1>2. /\ k \in JoinerRecs
      /\ k.pc # "idle" => k.run = joiner[t].run
      /\ k.pc = "confirm" => Joined \notin Range(facts[r])
  BY <1>1, NoPollerIsOne DEF JoinerRecs
<1>3. /\ joiner' = [joiner EXCEPT ![t] = k] /\ joiner[t].pc # "idle"
      /\ UNCHANGED <<entry, seen, subs, facts, desk, links, tarball, clock>>
  BY DEF Polls
<1> HIDE DEF k
<1>4. OnceOK'
  BY <1>1, <1>3 DEF OnceOK
<1>5. /\ facts' \in [Played -> Seq(FactKinds)] /\ facts' = facts
      /\ \A q \in Played : Joined \in Range(facts'[q]) => Joined \in Range(facts[q]) \/ q = joiner[t].run
  BY <1>1, <1>3
<1>6. k.pc = "confirm" => facts' = facts /\ Joined \notin Range(facts[joiner[t].run])
  BY <1>2, <1>3
<1> HIDE DEF asks, r
<1> QED  BY <1>2, <1>3, <1>4, <1>5, <1>6, JoinerMoves

LEMMA ConfirmsKeep ==
  ASSUME ControlInv, NEW t \in Desks, Confirms(t)
  PROVE  ControlInv'
<1> DEFINE r == joiner[t].run
           k == [joiner[t] EXCEPT !.pc = "flow"]
<1>1. joiner[t] \in JoinerRecs /\ JoinerOK(t)
  BY DEF ControlInv, ControlTyped, SharedTyped
<1>2. k \in JoinerRecs /\ k.run = joiner[t].run /\ k.pc = "flow"
  BY <1>1 DEF JoinerRecs
<1>3. /\ joiner' = [joiner EXCEPT ![t] = k] /\ joiner[t].pc = "confirm" /\ facts' = Facts(r, Joined)
      /\ UNCHANGED <<entry, seen, subs, desk, links, tarball, clock>>
  BY DEF Confirms
<1>4. r \in Played /\ Joined \notin Range(facts[r])
  BY <1>1, <1>3 DEF JoinerOK
<1> HIDE DEF k
<1>5. /\ facts' \in [Played -> Seq(FactKinds)] /\ OnceOK'
      /\ \A q \in Played : Joined \in Range(facts'[q]) => Joined \in Range(facts[q]) \/ q = r
  BY <1>3, <1>4, FactNoted DEF FactKinds
<1> QED  BY <1>2, <1>3, <1>4, <1>5, JoinerMoves

LEMMA FlowsKeep ==
  ASSUME ControlInv, NEW t \in Desks, Flows(t)
  PROVE  ControlInv'
<1> DEFINE r == joiner[t].run
           less == joiner[t].left - 1
           k == [joiner[t] EXCEPT !.pc = "poll", !.left = less]
<1>1. joiner[t] \in JoinerRecs /\ JoinerOK(t) /\ facts \in [Played -> Seq(FactKinds)] /\ OnceOK
  BY DEF ControlInv, ControlTyped, SharedTyped
<1>2. k \in JoinerRecs /\ k.run = joiner[t].run /\ k.pc = "poll"
  <2>1. less \in Int
    BY <1>1 DEF JoinerRecs
  <2> HIDE DEF less
  <2> QED  BY <1>1, <2>1 DEF JoinerRecs
<1>3. joiner' = [joiner EXCEPT ![t] = NoPoller] \/ joiner' = [joiner EXCEPT ![t] = k]
  <2> DEFINE first == entry[r].state # "created" /\ Flowing \notin Range(facts[r])
             now == IF first THEN Facts(r, Flowing) ELSE facts
             over == {Joined, Flowing} \subseteq Range(now[r]) \/ joiner[t].left = 1
  <2>1. joiner' = [joiner EXCEPT ![t] = IF over THEN NoPoller ELSE k]
    BY DEF Flows
  <2> HIDE DEF over, k
  <2> QED  BY <2>1
<1>4. facts' = facts \/ facts' = Facts(r, Flowing)
  <2> DEFINE first == entry[r].state # "created" /\ Flowing \notin Range(facts[r])
  <2>1. facts' = IF first THEN Facts(r, Flowing) ELSE facts
    BY DEF Flows
  <2> HIDE DEF first
  <2> QED  BY <2>1
<1>8. joiner[t].pc = "flow" /\ UNCHANGED <<entry, seen, subs, desk, links, tarball, clock>>
  BY DEF Flows
<1>9. r \in Played
  BY <1>1, <1>8 DEF JoinerOK
<1> HIDE DEF k
<1>5. /\ facts' \in [Played -> Seq(FactKinds)] /\ OnceOK'
      /\ \A q \in Played : Joined \in Range(facts'[q]) => Joined \in Range(facts[q])
  <2>1. CASE facts' = facts
    BY <1>1, <2>1 DEF OnceOK
  <2>2. CASE facts' = Facts(r, Flowing)
    <3>1. Flowing # Joined /\ Flowing \in FactKinds
      BY DEF Flowing, Joined, FactKinds
    <3> QED  BY <1>9, <2>2, <3>1, FactNoted
  <2> QED  BY <1>4, <2>1, <2>2
<1>6. CASE joiner' = [joiner EXCEPT ![t] = NoPoller]
  BY <1>5, <1>6, <1>8, NoPollerIsOne, JoinerMoves
<1>7. CASE joiner' = [joiner EXCEPT ![t] = k]
  BY <1>2, <1>5, <1>7, <1>8, JoinerMoves
<1> QED  BY <1>3, <1>6, <1>7

(***************************************************************************)
(* What is around them                                                     *)
(***************************************************************************)
LEMMA SurroundKeeps ==
  ASSUME ControlInv, Surround, UNCHANGED <<seen, desk, links, tarball, joiner>>
  PROVE  ControlInv'
<1>1. ControlTyped /\ SharedTyped
  BY DEF ControlInv, ControlTyped
<1>2. CASE UNCHANGED <<entry, subs, facts>> /\ clock' \in Nat
  <2>1. SharedTyped'
    BY <1>1, <1>2 DEF SharedTyped
  <2>2. Evolves /\ StartOK'
    BY <1>2, RowsStay
  <2>3. OnceOK' /\ \A t \in Desks : JoinerOK(t)'
    BY <1>2 DEF ControlInv, OnceOK, JoinerOK
  <2> QED  BY <2>1, <2>2, <2>3, DesksStay
<1>3. ASSUME NEW r \in Played, Exists(r), entry' = Ending(r), UNCHANGED <<subs, facts, clock>>
      PROVE  ControlInv'
  <2>1. Evolves /\ StartOK'
    BY <1>3, EndingEvolves
  <2>2. SharedTyped'
    BY <1>1, <1>3, <2>1 DEF SharedTyped, Evolves
  <2>3. OnceOK' /\ \A t \in Desks : JoinerOK(t)'
    BY <1>3 DEF ControlInv, OnceOK, JoinerOK
  <2> QED  BY <2>1, <2>2, <2>3, DesksStay
<1>4. ASSUME NEW r \in Played, IsOver(r), entry' = [entry EXCEPT ![r].sealed = TRUE],
             UNCHANGED <<subs, facts, clock>>
      PROVE  ControlInv'
  <2> DEFINE k == [entry[r] EXCEPT !.sealed = TRUE]
  <2>1. entry \in [Played -> Entries] /\ entry[r] \in Entries
    BY <1>1 DEF SharedTyped
  <2>2. /\ k \in Entries /\ k.state = entry[r].state /\ k.started = entry[r].started
        /\ k.policy = entry[r].policy
    BY <2>1 DEF Entries
  <2>3. entry' = [entry EXCEPT ![r] = k]
    BY <1>4
  <2> HIDE DEF k
  <2>4. entry' \in [Played -> Entries]
        /\ \A q \in Played : /\ entry'[q].state = entry[q].state /\ entry'[q].started = entry[q].started
                             /\ entry'[q].policy = entry[q].policy
    BY <2>1, <2>2, <2>3
  <2>5. Evolves
    BY <2>4 DEF Evolves
  <2>6. StartOK'
    <3>1. StartOK /\ \A i \in DOMAIN seen : seen[i] \in Played
      BY <1>1 DEF ControlInv, SharedTyped
    <3> QED  BY <2>4, <3>1 DEF StartOK
  <2>7. SharedTyped'
    BY <1>1, <1>4, <2>4 DEF SharedTyped
  <2>8. OnceOK' /\ \A t \in Desks : JoinerOK(t)'
    BY <1>4 DEF ControlInv, OnceOK, JoinerOK
  <2> QED  BY <2>5, <2>6, <2>7, <2>8, DesksStay
<1>5. ASSUME NEW r \in Played, Exists(r),
             entry' = [entry EXCEPT ![r].state = "gone", ![r].sealed = FALSE],
             subs' = [subs EXCEPT ![r] = << >>], facts' = [facts EXCEPT ![r] = << >>],
             UNCHANGED clock
      PROVE  ControlInv'
  <2> DEFINE k == [entry[r] EXCEPT !.state = "gone", !.sealed = FALSE]
  <2>1. entry \in [Played -> Entries] /\ entry[r] \in Entries
    BY <1>1 DEF SharedTyped
  <2>2. /\ k \in Entries /\ k.state = "gone" /\ k.started = entry[r].started
        /\ k.policy = entry[r].policy
    BY <2>1 DEF Entries
  <2>3. entry' = [entry EXCEPT ![r] = k]
    BY <1>5, <2>1
  <2> HIDE DEF k
  <2>4. entry' \in [Played -> Entries]
        /\ \A q \in Played : /\ entry'[q].started = entry[q].started
                             /\ entry'[q].policy = entry[q].policy
                             /\ entry'[q].state = IF q = r THEN "gone" ELSE entry[q].state
    BY <2>1, <2>2, <2>3
  <2>5. Evolves
    BY <2>4 DEF Evolves
  <2>6. StartOK'
    <3>1. StartOK /\ \A i \in DOMAIN seen : seen[i] \in Played
      BY <1>1 DEF ControlInv, SharedTyped
    <3> QED  BY <2>4, <3>1 DEF StartOK
  <2>7. \A q \in Played : /\ subs'[q] = IF q = r THEN << >> ELSE subs[q]
                          /\ facts'[q] = IF q = r THEN << >> ELSE facts[q]
    BY <1>1, <1>5 DEF SharedTyped
  <2>8. facts' \in [Played -> Seq(FactKinds)] /\ DOMAIN subs' = Played
    BY <1>1, <1>5 DEF SharedTyped
  <2>9. \A q \in Played : subs'[q] \in Seq(Subs(entry'[q].policy))
    <3>1. \A q \in Played : subs[q] \in Seq(Subs(entry'[q].policy)) /\ << >> \in Seq(Subs(entry'[q].policy))
      BY <1>1, <2>4 DEF SharedTyped
    <3> QED  BY <2>7, <3>1
  <2>10. SharedTyped'
    BY <1>1, <1>5, <2>4, <2>8, <2>9 DEF SharedTyped
  <2>11. OnceOK'
    BY <2>7 DEF ControlInv, OnceOK
  <2>12. \A q \in Played : Joined \in Range(facts'[q]) => Joined \in Range(facts[q])
    BY <2>7 DEF Range
  <2>13. \A t \in Desks : JoinerOK(t)'
    BY <2>12 DEF ControlInv, JoinerOK
  <2> QED  BY <2>5, <2>6, <2>10, <2>11, <2>13, DesksStay
<1>6. \/ UNCHANGED <<entry, subs, facts>> /\ clock' \in Nat
      \/ \E r \in Played : Exists(r) /\ entry' = Ending(r) /\ UNCHANGED <<subs, facts, clock>>
      \/ \E r \in Played : IsOver(r) /\ entry' = [entry EXCEPT ![r].sealed = TRUE]
                           /\ UNCHANGED <<subs, facts, clock>>
      \/ \E r \in Played : /\ Exists(r)
                           /\ entry' = [entry EXCEPT ![r].state = "gone", ![r].sealed = FALSE]
                           /\ subs' = [subs EXCEPT ![r] = << >>]
                           /\ facts' = [facts EXCEPT ![r] = << >>]
                           /\ UNCHANGED clock
  <2>1. clock \in Nat
    BY <1>1 DEF SharedTyped
  <2> QED  BY <2>1 DEF Surround
<1> QED  BY <1>2, <1>3, <1>4, <1>5, <1>6

LEMMA ControlStep == ControlInv /\ [RunControlNext]_controlVars => ControlInv'
<1> SUFFICES ASSUME ControlInv, [RunControlNext]_controlVars  PROVE ControlInv'
  OBVIOUS
<1>1. ASSUME NEW d \in Desks, NEW op \in AskKinds, Admitted(d, op)  PROVE ControlInv'
  BY <1>1, AdmittedKeeps
<1>2. ASSUME NEW d \in Desks,
             CheckBudget(d) \/ CountsIntel(d) \/ Streams(d) \/ Exported(d) \/ Probed(d)
      PROVE  ControlInv'
  BY <1>2, AskingKeeps
<1>3. ASSUME NEW d \in Desks, MarkStarted(d)  PROVE ControlInv'
  BY <1>3, MarkKeeps
<1>4. ASSUME NEW d \in Desks, Gate(d) \/ Completes(d)  PROVE ControlInv'
  BY <1>4, GateKeeps
<1>5. ASSUME NEW d \in Desks, Submits(d)  PROVE ControlInv'
  BY <1>5, SubmitsKeep
<1>6. ASSUME NEW d \in Desks, GrantsIntel(d)  PROVE ControlInv'
  BY <1>6, GrantsKeep
<1>7. ASSUME NEW d \in Desks, Serves(d)  PROVE ControlInv'
  BY <1>7, ServesKeeps
<1>8. ASSUME NEW d \in Desks, Notes(d)  PROVE ControlInv'
  BY <1>8, NotesKeep
<1>9. ASSUME NEW d \in Desks, Downloads(d)  PROVE ControlInv'
  BY <1>9, DownloadsKeep
<1>10. ASSUME NEW d \in Desks, OpensTarball(d) \/ Fetches(d) \/ Renames(d)  PROVE ControlInv'
  BY <1>10, TarballKeeps
<1>11. ASSUME NEW d \in Desks, Connects(d)  PROVE ControlInv'
  BY <1>11, ConnectsKeep
<1>12. ASSUME NEW t \in Desks, Polls(t) \/ Confirms(t) \/ Flows(t)  PROVE ControlInv'
  BY <1>12, PollsKeep, ConfirmsKeep, FlowsKeep
<1>13. CASE Surround /\ UNCHANGED <<seen, desk, links, tarball, joiner>>
  BY <1>13, SurroundKeeps
<1>14. CASE UNCHANGED controlVars
  BY <1>14 DEF controlVars, ControlInv, ControlTyped, SharedTyped, StartOK, OnceOK, DeskOK, SentOK,
               JoinerOK
<1> QED  BY <1>1, <1>2, <1>3, <1>4, <1>5, <1>6, <1>7, <1>8, <1>9, <1>10, <1>11, <1>12, <1>13,
            <1>14 DEF RunControlNext

\* However the requests of any number of agents overlap, with writes that fail, runs
\* that are stopped, sealed and deleted under them, and any manifest's intel: no run
\* is remembered as started that is not, none starts past its budget, none is told
\* intel its policy keeps from it, what is streamed is whole and its own, and a join
\* is recorded once (rest/routers/runcontrol.py, rest/run_start.py,
\* rest/join_reconcile.py, runs/tailscale_dist.py).
THEOREM ControlKeepsItsWord == RunControlSpec => []ControlIsSound
<1>1. ControlInv => ControlIsSound
  <2> SUFFICES ASSUME ControlInv  PROVE ControlIsSound
    OBVIOUS
  <2>1. StartIsSound
    BY DEF ControlInv, StartOK, StartIsSound, Range
  <2>2. IntelWithinPolicy
    <3> SUFFICES ASSUME NEW r \in Played, NEW i \in DOMAIN Authored,
                        <<"intel", Authored[i]>> \in Range(subs[r])
                 PROVE  Authored[i] \in entry[r].policy
      BY DEF IntelWithinPolicy
    <3>1. <<"intel", Authored[i]>> \in Subs(entry[r].policy)
      <4>1. PICK k \in DOMAIN subs[r] : subs[r][k] = <<"intel", Authored[i]>>
        BY DEF Range
      <4>2. subs[r] \in Seq(Subs(entry[r].policy))
        BY DEF ControlInv, ControlTyped, SharedTyped
      <4>3. subs[r][k] \in Subs(entry[r].policy)
        BY <4>2
      <4> QED  BY <4>1, <4>3
    <3>2. <<"intel", Authored[i]>> # <<"artifacts">> /\ <<"intel", Authored[i]>> # <<"complete">>
      OBVIOUS
    <3>3. PICK j \in Range(Authored) \cap entry[r].policy : <<"intel", Authored[i]>> = <<"intel", j>>
      BY <3>1, <3>2 DEF Subs
    <3> QED  BY <3>3
  <2>3. StreamedIsWhole
    BY DEF ControlInv, DeskOK, SentOK, StreamedIsWhole, At
  <2>4. JoinedOnce
    <3> SUFFICES ASSUME NEW r \in Played
                 PROVE  Cardinality({i \in DOMAIN facts[r] : facts[r][i] = Joined}) <= 1
      BY DEF JoinedOnce
    <3> DEFINE S == {i \in DOMAIN facts[r] : facts[r][i] = Joined}
    <3>1. \A i, k \in S : i = k
      BY DEF ControlInv, OnceOK
    <3> HIDE DEF S
    <3>2. CASE S = {}
      BY <3>2, FS_EmptySet DEF S
    <3>3. CASE S # {}
      <4>1. PICK i \in S : TRUE
        BY <3>3
      <4>2. S = {i}
        BY <3>1, <4>1
      <4>3. Cardinality(S) = 1
        BY <4>2, FS_Singleton
      <4> QED  BY <4>3 DEF S
    <3> QED  BY <3>2, <3>3
  <2> QED  BY <2>1, <2>2, <2>3, <2>4 DEF ControlIsSound
<1> QED  BY <1>1, ControlStarts, ControlStep, PTL DEF RunControlSpec

-----------------------------------------------------------------------------
(***************************************************************************)
(* The event view.  No page is asked for past what the browser has by the  *)
(* time it is served, whatever was put in the cache meanwhile; and what    *)
(* the header of a page has is still there when its rows are read, but for *)
(* what an older projection has taken.                                     *)
(***************************************************************************)
AskedBehind == \A r \in Requests, s \in Signals : request[r].since[s] <= cursor[s]

HeaderIsThere ==
  \A r \in Pollers : Awaited(r) \subseteq Past(cache.made, None) \cup torn

PollInv == ProjectionTypeOK /\ AskedBehind /\ HeaderIsThere /\ PollSkipsOnlyTorn

RequestStates == [at : {"idle", "logs", "compare", "put", "serve", "rows"},
                  read : SeqCounts, since : SeqCounts, header : SeqCounts]

\* A poll begins with nothing.
LEMMA PollStarts == TerrainInit => PollInv
<1> SUFFICES ASSUME TerrainInit PROVE PollInv
  OBVIOUS
<1>1. None \in SeqCounts /\ \A s \in Signals : None[s] = 0
  BY ProjectionAssumption DEF None, SeqCounts
<1>2. ProjectionTypeOK
  <2>1. IdleRequest \in RequestStates
    BY <1>1 DEF IdleRequest, RequestStates
  <2>2. traffic \in [TrafficKinds -> 0..Batches]
    BY ProjectionAssumption DEF TerrainInit, ProjectionInit
  <2>3. cache \in [version : 0..Batches + 1, made : SeqCounts] /\ version \in 0..Batches
    BY <1>1, ProjectionAssumption DEF TerrainInit, ProjectionInit, NoView
  <2> QED
    BY <1>1, <2>1, <2>2, <2>3 DEF TerrainInit, ProjectionInit, ProjectionTypeOK, RequestStates
<1>3. AskedBehind /\ PollSkipsOnlyTorn
  BY <1>1 DEF TerrainInit, ProjectionInit, AskedBehind, PollSkipsOnlyTorn, IdleRequest
<1>4. HeaderIsThere
  BY DEF TerrainInit, ProjectionInit, HeaderIsThere, Awaited, IdleRequest, Requests
<1> QED
  BY <1>2, <1>3, <1>4 DEF PollInv

\* What a request does to the others: nothing.
LEMMA OneRequest ==
  ASSUME ProjectionTypeOK, NEW r \in Requests, NEW x \in RequestStates,
         request' = [request EXCEPT ![r] = x]
  PROVE  /\ request' \in [Requests -> RequestStates]
         /\ request'[r] = x
         /\ \A q \in Requests : q # r => request'[q] = request[q]
BY DEF ProjectionTypeOK, RequestStates

\* What is awaited is as much there as before, unless the request waits for more.
LEMMA HeaderKept ==
  ASSUME PollInv, NEW r \in Requests, request'[r].at # "rows",
         \A q \in Requests : q # r => request'[q] = request[q],
         UNCHANGED <<cache, torn>>
  PROVE  HeaderIsThere'
<1> SUFFICES ASSUME NEW p \in Pollers
             PROVE  Awaited(p)' \subseteq Past(cache'.made, None) \cup torn'
  BY DEF HeaderIsThere
<1>1. Awaited(p)' = {} \/ Awaited(p)' = Awaited(p)
  BY DEF Awaited, Requests
<1> QED
  BY <1>1 DEF PollInv, HeaderIsThere

\* Counts only move up when a request that has gone through is served.
LEMMA AskSteps ==
  ASSUME PollInv, NEW r \in Requests, Ask(r)
  PROVE  PollInv'
<1>1. \A k \in TrafficKinds : Brings(k) => traffic' \in [TrafficKinds -> 0..Batches]
  BY ProjectionAssumption DEF PollInv, ProjectionTypeOK, Brings
<1>2. traffic' \in [TrafficKinds -> 0..Batches]
  BY <1>1 DEF Ask, TrafficKinds
<1> DEFINE x == [IdleRequest EXCEPT !.at = "logs", !.read["trace"] = stored["trace"],
                                    !.since = cursor]
<1>3. x \in RequestStates
  <2>1. [None EXCEPT !["trace"] = stored["trace"]] \in SeqCounts /\ None \in SeqCounts
    BY ProjectionAssumption DEF None, SeqCounts, Signals, PollInv, ProjectionTypeOK
  <2> QED
    BY <2>1 DEF PollInv, ProjectionTypeOK, RequestStates, IdleRequest
<1>4. request' = [request EXCEPT ![r] = x]
  BY DEF Ask
<1>5. x.since = cursor /\ x.at = "logs"
  BY DEF IdleRequest
<1> HIDE DEF x
<1>6. /\ request' \in [Requests -> RequestStates] /\ request'[r] = x
      /\ \A q \in Requests : q # r => request'[q] = request[q]
  BY <1>3, <1>4, OneRequest DEF PollInv
<1>7. UNCHANGED <<stored, frozen, version, cache, cursor, got, torn>>
  BY DEF Ask
<1>8. ProjectionTypeOK'
  BY <1>2, <1>6, <1>7 DEF PollInv, ProjectionTypeOK, RequestStates
<1>9. AskedBehind'
  <2> SUFFICES ASSUME NEW q \in Requests, NEW s \in Signals
               PROVE  request'[q].since[s] <= cursor[s]
    BY <1>7 DEF AskedBehind
  <2>1. cursor[s] \in Nat
    BY ProjectionAssumption DEF PollInv, ProjectionTypeOK, SeqCounts
  <2> QED
    BY <1>5, <1>6, <2>1 DEF PollInv, AskedBehind
<1>10. PollSkipsOnlyTorn'
  BY <1>7 DEF PollInv, PollSkipsOnlyTorn
<1>11. HeaderIsThere'
  BY <1>5, <1>6, <1>7, HeaderKept
<1> QED
  BY <1>8, <1>9, <1>10, <1>11 DEF PollInv

\* A request that goes on leaves the browser alone.
LEMMA GoesOn ==
  ASSUME PollInv, NEW r \in Requests, NEW x \in RequestStates,
         request' = [request EXCEPT ![r] = x], x.since = request[r].since \/ x = IdleRequest,
         UNCHANGED <<stored, frozen, version, cursor, got, traffic>>,
         cache' \in [version : 0..Batches + 1, made : SeqCounts],
         torn \subseteq torn', torn' \subseteq Signals \X (1..Batches), HeaderIsThere'
  PROVE  PollInv'
<1>1. /\ request' \in [Requests -> RequestStates] /\ request'[r] = x
      /\ \A q \in Requests : q # r => request'[q] = request[q]
  BY OneRequest DEF PollInv
<1>2. ProjectionTypeOK'
  BY <1>1 DEF PollInv, ProjectionTypeOK, RequestStates
<1>3. AskedBehind'
  <2> SUFFICES ASSUME NEW q \in Requests, NEW s \in Signals
               PROVE  request'[q].since[s] <= cursor[s]
    BY DEF AskedBehind
  <2>1. cursor[s] \in Nat
    BY ProjectionAssumption DEF PollInv, ProjectionTypeOK, SeqCounts
  <2>2. IdleRequest.since[s] = 0
    BY DEF IdleRequest, None
  <2> QED
    BY <1>1, <2>1, <2>2 DEF PollInv, AskedBehind
<1>4. PollSkipsOnlyTorn'
  BY DEF PollInv, PollSkipsOnlyTorn
<1> QED
  BY <1>2, <1>3, <1>4 DEF PollInv

\* ... nor does it take anything from under a page, unless it writes.
LEMMA GoesOnQuietly ==
  ASSUME PollInv, NEW r \in Requests, NEW x \in RequestStates,
         request' = [request EXCEPT ![r] = x], x.since = request[r].since \/ x = IdleRequest,
         x.at # "rows", UNCHANGED <<stored, frozen, version, cache, cursor, got, torn, traffic>>
  PROVE  PollInv'
<1>1. /\ request'[r] = x /\ \A q \in Requests : q # r => request'[q] = request[q]
  BY OneRequest DEF PollInv
<1>2. HeaderIsThere'
  BY <1>1, HeaderKept
<1>3. /\ cache' \in [version : 0..Batches + 1, made : SeqCounts]
      /\ torn \subseteq torn' /\ torn' \subseteq Signals \X (1..Batches)
  BY DEF PollInv, ProjectionTypeOK
<1> QED
  BY <1>2, <1>3, GoesOn

LEMMA IdleIsARequest == IdleRequest \in RequestStates
<1>1. None \in SeqCounts
  BY ProjectionAssumption DEF None, SeqCounts
<1> QED
  BY <1>1 DEF IdleRequest, RequestStates

\* A page holds all there is between the browser's cursor, as it was when the page
\* was asked for, and the header's, but for what has been taken since.
LEMMA PageSteps ==
  ASSUME PollInv, NEW r \in Requests, PageRows(r)
  PROVE  PollInv'
<1> DEFINE top == request[r].header
<1>1. /\ request' \in [Requests -> RequestStates] /\ request'[r] = IdleRequest
      /\ \A q \in Requests : q # r => request'[q] = request[q]
  BY IdleIsARequest, OneRequest DEF PollInv, PageRows
<1>2. /\ cursor' = Newer(cursor, top)
      /\ got' = got \cup Past(cache.made, request[r].since)
      /\ UNCHANGED <<stored, frozen, version, cache, torn, traffic>>
      /\ r \in Pollers /\ request[r].at = "rows"
  BY DEF PageRows
<1>3. /\ cursor \in SeqCounts /\ cache.made \in SeqCounts /\ top \in SeqCounts
      /\ request[r].since \in SeqCounts
  BY DEF PollInv, ProjectionTypeOK
<1> HIDE DEF top
<1>4. \A s \in Signals : /\ cursor[s] \in 0..Batches /\ cache.made[s] \in 0..Batches
                         /\ request[r].since[s] \in 0..Batches /\ top[s] \in 0..Batches
  BY <1>3 DEF SeqCounts
<1>5. \A s \in Signals : /\ cursor'[s] = IF cursor[s] > top[s] THEN cursor[s] ELSE top[s]
                         /\ cursor'[s] \in 0..Batches /\ cursor[s] <= cursor'[s]
  BY <1>2, <1>4, ProjectionAssumption DEF Newer
<1>6. cursor' \in SeqCounts
  BY <1>2, <1>5 DEF Newer, SeqCounts
<1>7. ProjectionTypeOK'
  <2>1. got' \subseteq Signals \X (1..Batches)
    BY <1>2 DEF Past, PollInv, ProjectionTypeOK
  <2> QED
    BY <1>1, <1>2, <1>6, <2>1 DEF PollInv, ProjectionTypeOK, RequestStates
<1>8. AskedBehind'
  <2> SUFFICES ASSUME NEW q \in Requests, NEW s \in Signals
               PROVE  request'[q].since[s] <= cursor'[s]
    BY DEF AskedBehind
  <2>1. CASE q = r
    BY <1>1, <1>5, <2>1, ProjectionAssumption DEF IdleRequest, None
  <2>2. CASE q # r
    <3>1. request[q].since[s] \in 0..Batches
      BY DEF PollInv, ProjectionTypeOK, SeqCounts
    <3>2. request[q].since[s] <= cursor[s]
      BY DEF PollInv, AskedBehind
    <3> QED
      BY <1>1, <1>4, <1>5, <2>2, <3>1, <3>2
  <2> QED
    BY <2>1, <2>2
<1>9. PollSkipsOnlyTorn'
  <2> SUFFICES ASSUME NEW s \in Signals, NEW n \in 1..cursor'[s], <<s, n>> \notin torn
               PROVE  <<s, n>> \in got'
    BY <1>2 DEF PollSkipsOnlyTorn
  <2>1. n \in 1..Batches
    BY <1>5, ProjectionAssumption
  <2>2. CASE n <= cursor[s]
    <3>1. n \in 1..cursor[s]
      BY <1>4, <2>1, <2>2
    <3> QED
      BY <1>2, <3>1 DEF PollInv, PollSkipsOnlyTorn
  <2>3. CASE cursor[s] < n
    <3>1. request[r].since[s] <= cursor[s]
      BY DEF PollInv, AskedBehind
    <3>2. request[r].since[s] < n /\ n <= top[s]
      BY <1>4, <1>5, <2>1, <2>3, <3>1
    <3>3. <<s, n>> \in Awaited(r)
      BY <1>2, <2>1, <3>2 DEF Past, Awaited, None, top
    <3>4. n <= cache.made[s]
      BY <1>2, <3>3 DEF PollInv, HeaderIsThere, Past
    <3>5. <<s, n>> \in Past(cache.made, request[r].since)
      BY <2>1, <3>2, <3>4 DEF Past
    <3> QED
      BY <1>2, <3>5
  <2> QED
    BY <1>4, <2>1, <2>2, <2>3
<1>10. HeaderIsThere'
  BY <1>1, <1>2, HeaderKept DEF IdleRequest
<1> QED
  BY <1>7, <1>8, <1>9, <1>10 DEF PollInv

\* What a header has is there when it is read.
LEMMA HeaderSteps ==
  ASSUME PollInv, NEW r \in Requests, PageHeader(r)
  PROVE  PollInv'
<1> DEFINE x == [request[r] EXCEPT !.at = "rows", !.header = cache.made]
<1>1. /\ request' = [request EXCEPT ![r] = x]
      /\ UNCHANGED <<stored, frozen, version, cache, cursor, got, torn, traffic>>
  BY DEF PageHeader
<1>2. x \in RequestStates /\ x.since = request[r].since /\ x.header = cache.made
  BY DEF PollInv, ProjectionTypeOK, RequestStates
<1> HIDE DEF x
<1>3. /\ request'[r] = x /\ \A q \in Requests : q # r => request'[q] = request[q]
  BY <1>1, <1>2, OneRequest DEF PollInv
<1>4. HeaderIsThere'
  <2> SUFFICES ASSUME NEW p \in Pollers
               PROVE  Awaited(p)' \subseteq Past(cache'.made, None) \cup torn'
    BY DEF HeaderIsThere
  <2>1. CASE p = r
    BY <1>1, <1>2, <1>3, <2>1 DEF Awaited
  <2>2. CASE p # r
    BY <1>1, <1>3, <2>2 DEF Awaited, Requests, PollInv, HeaderIsThere
  <2> QED
    BY <2>1, <2>2
<1>5. cache' \in [version : 0..Batches + 1, made : SeqCounts]
      /\ torn \subseteq torn' /\ torn' \subseteq Signals \X (1..Batches)
  BY <1>1 DEF PollInv, ProjectionTypeOK
<1> QED
  BY <1>1, <1>2, <1>4, <1>5, GoesOn

\* An older projection takes from under a page what it lacks, and no more.
LEMMA PutSteps ==
  ASSUME PollInv, NEW r \in Requests, Put(r)
  PROVE  PollInv'
<1> DEFINE x == [request[r] EXCEPT !.at = "serve"]
<1>1. /\ request' = [request EXCEPT ![r] = x]
      /\ cache' = Current(version, request[r].read)
      /\ torn' = torn \cup ((UNION {Awaited(p) : p \in Pollers}) \ Past(request[r].read, None))
      /\ UNCHANGED <<stored, frozen, version, cursor, got, traffic>>
  BY DEF Put, To
<1>2. x \in RequestStates /\ x.since = request[r].since /\ x.at = "serve"
  BY DEF PollInv, ProjectionTypeOK, RequestStates
<1> HIDE DEF x
<1>3. /\ request'[r] = x /\ \A q \in Requests : q # r => request'[q] = request[q]
  BY <1>1, <1>2, OneRequest DEF PollInv
<1>4. cache' \in [version : 0..Batches + 1, made : SeqCounts] /\ cache'.made = request[r].read
  BY <1>1, ProjectionAssumption DEF Current, PollInv, ProjectionTypeOK
<1>5. torn \subseteq torn' /\ torn' \subseteq Signals \X (1..Batches)
  BY <1>1 DEF PollInv, ProjectionTypeOK, Awaited, Past
<1>6. HeaderIsThere'
  <2> SUFFICES ASSUME NEW p \in Pollers, NEW e \in Awaited(p)'
               PROVE  e \in Past(cache'.made, None) \cup torn'
    BY DEF HeaderIsThere
  <2>1. e \in Awaited(p)
    BY <1>2, <1>3 DEF Awaited, Requests
  <2>2. e \in UNION {Awaited(q) : q \in Pollers}
    BY <2>1
  <2>3. CASE e \in Past(request[r].read, None)
    BY <1>4, <2>3
  <2>4. CASE e \notin Past(request[r].read, None)
    BY <1>1, <2>2, <2>4
  <2> QED
    BY <2>3, <2>4
<1> QED
  BY <1>1, <1>2, <1>4, <1>5, <1>6, GoesOn

\* Requests die with the server, and the browser keeps what it has.
LEMMA AllIdle ==
  ASSUME PollInv, request' = [r \in Requests |-> IdleRequest],
         UNCHANGED <<stored, frozen, cache, cursor, got, torn>>,
         version' \in 0..Batches, traffic' \in [TrafficKinds -> 0..Batches]
  PROVE  PollInv'
<1>1. ProjectionTypeOK'
  BY IdleIsARequest DEF PollInv, ProjectionTypeOK, RequestStates
<1>2. AskedBehind'
  <2>1. \A s \in Signals : cursor[s] \in Nat
    BY ProjectionAssumption DEF PollInv, ProjectionTypeOK, SeqCounts
  <2> QED
    BY <2>1 DEF AskedBehind, IdleRequest, None
<1>3. PollSkipsOnlyTorn'
  BY DEF PollInv, PollSkipsOnlyTorn
<1>4. HeaderIsThere'
  BY DEF HeaderIsThere, Awaited, IdleRequest, Requests
<1> QED
  BY <1>1, <1>2, <1>3, <1>4 DEF PollInv

LEMMA EventStepsKeep ==
  ASSUME PollInv, EventSteps
  PROVE  PollInv'
<1>1. \A k \in TrafficKinds : Brings(k) => traffic' \in [TrafficKinds -> 0..Batches]
  BY ProjectionAssumption DEF PollInv, ProjectionTypeOK, Brings
<1>2. CASE \E s \in Signals : Store(s)
  <2> PICK s \in Signals : Store(s)
    BY <1>2
  <2>1. stored' \in SeqCounts
    BY ProjectionAssumption DEF Store, PollInv, ProjectionTypeOK, SeqCounts
  <2>2. traffic' \in [TrafficKinds -> 0..Batches]
    BY <1>1 DEF Store, TrafficKinds
  <2> QED
    BY <2>1, <2>2 DEF Store, PollInv, ProjectionTypeOK, AskedBehind, PollSkipsOnlyTorn,
                      HeaderIsThere, Awaited
<1>3. CASE \E r \in Requests : Ask(r)
  BY <1>3, AskSteps
<1>4. ASSUME NEW r \in Requests, ReadLogs(r) PROVE PollInv'
  <2> DEFINE x == [request[r] EXCEPT !.at = "compare", !.read["log"] = stored["log"]]
  <2>1. request' = [request EXCEPT ![r] = x]
    BY <1>4 DEF ReadLogs
  <2>2. x \in RequestStates /\ x.since = request[r].since /\ x.at = "compare"
    <3>1. request[r] \in RequestStates /\ stored["log"] \in 0..Batches
      BY DEF PollInv, ProjectionTypeOK, RequestStates, SeqCounts, Signals
    <3>2. [request[r].read EXCEPT !["log"] = stored["log"]] \in SeqCounts
      BY <3>1 DEF RequestStates, SeqCounts
    <3> QED
      BY <3>1, <3>2 DEF RequestStates
  <2> HIDE DEF x
  <2>3. UNCHANGED <<stored, frozen, version, cache, cursor, got, torn, traffic>>
    BY <1>4 DEF ReadLogs
  <2> QED
    BY <2>1, <2>2, <2>3, GoesOnQuietly
<1>5. ASSUME NEW r \in Requests, Compare(r) PROVE PollInv'
  <2>1. PICK at \in {"put", "serve"} : request' = [request EXCEPT ![r].at = at]
    BY <1>5 DEF Compare, To
  <2> DEFINE x == [request[r] EXCEPT !.at = at]
  <2>2. request' = [request EXCEPT ![r] = x]
    BY <2>1
  <2>3. x \in RequestStates /\ x.since = request[r].since /\ x.at # "rows"
    BY DEF PollInv, ProjectionTypeOK, RequestStates
  <2> HIDE DEF x
  <2>4. UNCHANGED <<stored, frozen, version, cache, cursor, got, torn, traffic>>
    BY <1>5 DEF Compare
  <2> QED
    BY <2>2, <2>3, <2>4, GoesOnQuietly
<1>6. ASSUME NEW r \in Requests, Put(r) \/ PageHeader(r) \/ PageRows(r) PROVE PollInv'
  BY <1>6, PutSteps, HeaderSteps, PageSteps
<1>7. ASSUME NEW r \in Requests, ServeView(r) PROVE PollInv'
  <2>1. /\ request' = [request EXCEPT ![r] = IdleRequest]
        /\ UNCHANGED <<stored, frozen, version, cache, cursor, got, torn, traffic>>
    BY <1>7 DEF ServeView
  <2>2. IdleRequest.at # "rows"
    BY DEF IdleRequest
  <2> QED
    BY <2>1, <2>2, IdleIsARequest, GoesOnQuietly
<1>8. CASE Upgrade
  <2>1. traffic' \in [TrafficKinds -> 0..Batches]
    BY <1>1, <1>8 DEF Upgrade, TrafficKinds
  <2>2. version' \in 0..Batches
    BY <1>8, ProjectionAssumption DEF Upgrade, PollInv, ProjectionTypeOK
  <2> QED
    BY <1>8, <2>1, <2>2, AllIdle DEF Upgrade
<1> QED
  BY <1>2, <1>3, <1>4, <1>5, <1>6, <1>7, <1>8 DEF EventSteps

LEMMA PollSteps ==
  ASSUME PollInv, [TerrainNext]_terrainVars
  PROVE  PollInv'
<1>1. CASE UNCHANGED projectionVars
  BY <1>1 DEF projectionVars, PollInv, ProjectionTypeOK, AskedBehind, PollSkipsOnlyTorn,
              HeaderIsThere, Awaited
<1>2. CASE EventSteps
  BY <1>2, EventStepsKeep
<1>3. CASE Seal
  BY <1>3 DEF Seal, PollInv, ProjectionTypeOK, AskedBehind, PollSkipsOnlyTorn,
              HeaderIsThere, Awaited
<1>4. CASE Export
  BY <1>4, AskSteps, MapAssumption DEF Export, Requests
<1>5. CASE Restart
  <2>1. version' \in 0..Batches /\ traffic' \in [TrafficKinds -> 0..Batches]
    BY <1>5 DEF Restart, PollInv, ProjectionTypeOK
  <2> QED
    BY <1>5, <2>1, AllIdle DEF Restart
<1>6. UNCHANGED terrainVars => UNCHANGED projectionVars
  BY DEF terrainVars
<1>7. (DrainSteps \/ (\E k \in MapKinds : GivesUp(k)) \/ ViewMap \/ LastKick)
        => UNCHANGED projectionVars
  BY DEF DrainSteps, Attribute, Drained, RecordMany, RecordConsidered, GivesUp, ViewMap, LastKick
<1> QED
  BY <1>1, <1>2, <1>3, <1>4, <1>5, <1>6, <1>7 DEF TerrainNext

(***************************************************************************)
(* However requests are interleaved, and whatever each of them puts in the *)
(* cache, everything below the browser's cursor has reached it, but for    *)
(* what an older projection took from between the readings of a page.      *)
(***************************************************************************)
THEOREM PollsSkipOnlyTorn == TerrainSpec => []PollSkipsOnlyTorn
<1>1. TerrainInit => PollInv
  BY PollStarts
<1>2. PollInv /\ [TerrainNext]_terrainVars => PollInv'
  BY PollSteps
<1>3. PollInv => PollSkipsOnlyTorn
  BY DEF PollInv
<1> QED
  BY <1>1, <1>2, <1>3, PTL DEF TerrainSpec

(***************************************************************************)
(* The map.  The verdicts a catch-up is about to write are of events that  *)
(* had none when it asked, and no other catch-up of the run has come in    *)
(* between: what its updates are of is not marked.                         *)
(***************************************************************************)
VerdictsAreNew == drain.acts \cap considered = {}

MapInv == MapTypeOK /\ OneVerdict /\ VerdictsAreNew

DrainStates == [at : {"off", "ask", "write", "mark"}, events : SUBSET Attributable,
                batch : SUBSET Attributable, acts : SUBSET Attributable]

LEMMA NoDrainTyped == NoDrain \in DrainStates /\ NoDrain.acts = {}
BY DEF NoDrain, DrainStates

\* A kick and the end of a catch-up leave no verdict to be written, and no mark.
LEMMA KickKeeps ==
  ASSUME MapInv, Kick \/ GiveBack, UNCHANGED <<updates, considered>>,
         ending' \in {"live", "sealed", "exporting", "exported", "done"}
  PROVE  MapInv'
<1>1. ViewEvents \in SUBSET Attributable
  BY DEF ViewEvents
<1> DEFINE k == [NoDrain EXCEPT !.at = "ask", !.events = ViewEvents]
<1>2. k \in DrainStates /\ k.acts = {}
  BY <1>1 DEF NoDrain, DrainStates
<1>3. \/ drain' = k /\ inflight' = TRUE
      \/ drain' = NoDrain /\ inflight' = FALSE
      \/ UNCHANGED <<inflight, drain>>
  BY DEF Kick, GiveBack
<1> HIDE DEF k
<1>4. drain' \in DrainStates /\ inflight' \in BOOLEAN
  BY <1>2, <1>3, NoDrainTyped DEF MapInv, MapTypeOK, DrainStates
<1>5. VerdictsAreNew'
  BY <1>2, <1>3, NoDrainTyped DEF MapInv, VerdictsAreNew
<1> QED
  BY <1>4, <1>5 DEF MapInv, MapTypeOK, OneVerdict, DrainStates

LEMMA MapSteps ==
  ASSUME MapInv, [TerrainNext]_terrainVars
  PROVE  MapInv'
<1>1. CASE UNCHANGED mapVars
  BY <1>1 DEF mapVars, MapInv, MapTypeOK, OneVerdict, VerdictsAreNew
<1>2. CASE Attribute
  <2>1. PICK n \in 1..DrainLimit : \E acts \in SUBSET Oldest(n, Pending) :
           drain' = [drain EXCEPT !.at = "write", !.batch = Oldest(n, Pending), !.acts = acts]
    BY <1>2 DEF Attribute
  <2> DEFINE batch == Oldest(n, Pending)
  <2>2. PICK acts \in SUBSET batch :
          drain' = [drain EXCEPT !.at = "write", !.batch = batch, !.acts = acts]
    BY <2>1
  <2>3. batch \subseteq Pending
    BY DEF Oldest
  <2> HIDE DEF batch
  <2>4. Pending \subseteq Attributable /\ Pending \cap considered = {}
    BY DEF Pending, Attributed, MapInv, MapTypeOK
  <2>5. drain' \in DrainStates /\ drain'.acts = acts
    BY <2>2, <2>3, <2>4 DEF MapInv, MapTypeOK, DrainStates
  <2>6. UNCHANGED <<updates, considered, inflight, ending>>
    BY <1>2 DEF Attribute
  <2>7. acts \cap considered = {}
    BY <2>2, <2>3, <2>4
  <2> QED
    BY <2>5, <2>6, <2>7 DEF MapInv, MapTypeOK, OneVerdict, VerdictsAreNew, DrainStates
<1>3. CASE Drained
  BY <1>3, KickKeeps DEF Drained, MapInv, MapTypeOK
<1>4. CASE RecordMany
  <2>1. drain' \in DrainStates /\ drain'.acts = drain.acts
    BY <1>4 DEF RecordMany, MapInv, MapTypeOK, DrainStates
  <2>2. updates' \subseteq Attributable
    BY <1>4 DEF RecordMany, MapInv, MapTypeOK
  <2>3. UNCHANGED <<considered, inflight, ending>> /\ updates' = updates \cup drain.acts
    BY <1>4 DEF RecordMany
  <2>4. updates' \cap considered' = {}
    BY <2>3 DEF MapInv, OneVerdict, VerdictsAreNew
  <2> QED
    BY <2>1, <2>2, <2>3, <2>4 DEF MapInv, MapTypeOK, OneVerdict, VerdictsAreNew, DrainStates
<1>5. CASE RecordConsidered
  <2>1. drain' \in DrainStates /\ drain'.acts = {}
    BY <1>5 DEF RecordConsidered, MapInv, MapTypeOK, DrainStates
  <2>2. /\ considered' = considered \cup Marked(drain.batch)
        /\ UNCHANGED <<updates, inflight, ending>>
    BY <1>5 DEF RecordConsidered
  <2>3. Marked(drain.batch) \cap updates = {} /\ Marked(drain.batch) \subseteq Attributable
    BY DEF Marked, Attributed, MapInv, MapTypeOK
  <2>4. updates' \cap considered' = {}
    BY <2>2, <2>3 DEF MapInv, OneVerdict
  <2>5. considered' \subseteq Attributable
    BY <2>2, <2>3 DEF MapInv, MapTypeOK
  <2> QED
    BY <2>1, <2>2, <2>4, <2>5 DEF MapInv, MapTypeOK, OneVerdict, VerdictsAreNew, DrainStates
<1>6. CASE \E k \in MapKinds : GivesUp(k)
  BY <1>6, KickKeeps DEF GivesUp, MapInv, MapTypeOK
<1>7. CASE ViewMap
  BY <1>7, KickKeeps DEF ViewMap, MapInv, MapTypeOK
<1>8. CASE Seal
  BY <1>8 DEF Seal, MapInv, MapTypeOK, OneVerdict, VerdictsAreNew
<1>9. CASE Export
  BY <1>9 DEF Export, MapInv, MapTypeOK, OneVerdict, VerdictsAreNew
<1>10. CASE LastKick
  BY <1>10, KickKeeps DEF LastKick
<1>11. CASE Restart
  <2>1. ending' \in {"live", "sealed", "exporting", "exported", "done"}
    BY <1>11 DEF Restart, MapInv, MapTypeOK
  <2> QED
    BY <1>11, <2>1, KickKeeps DEF Restart, GiveBack
<1>12. EventSteps => UNCHANGED mapVars
  BY DEF EventSteps
<1> QED
  BY <1>1, <1>2, <1>3, <1>4, <1>5, <1>6, <1>7, <1>8, <1>9, <1>10, <1>11, <1>12
  DEF TerrainNext, DrainSteps, terrainVars

(***************************************************************************)
(* However many catch-ups are cut off between the two transactions, no     *)
(* event has both an update and the marker of one without any.             *)
(***************************************************************************)
THEOREM VerdictsAreOne == TerrainSpec => []OneVerdict
<1>1. TerrainInit => MapInv
  <2> SUFFICES ASSUME TerrainInit PROVE MapInv
    OBVIOUS
  <2>1. updates = {} /\ considered = {} /\ inflight = FALSE /\ drain = NoDrain /\ ending = "live"
    BY DEF TerrainInit, MapInit
  <2> QED
    BY <2>1, NoDrainTyped DEF MapInv, MapTypeOK, OneVerdict, VerdictsAreNew, DrainStates
<1>2. MapInv /\ [TerrainNext]_terrainVars => MapInv'
  BY MapSteps
<1>3. MapInv => OneVerdict
  BY DEF MapInv
<1> QED
  BY <1>1, <1>2, <1>3, PTL DEF TerrainSpec

\* So a browser has every event it was past, but for those of a torn page, and the
\* map has each event once (otel/store/agent_events.py, rest/terrain_catchup_v2.py).
THEOREM EventsStayFollowed == TerrainSpec => []EventsAreFollowed
<1>1. PollSkipsOnlyTorn /\ OneVerdict => EventsAreFollowed
  BY DEF EventsAreFollowed
<1> QED
  BY <1>1, PollsSkipOnlyTorn, VerdictsAreOne, PTL

-----------------------------------------------------------------------------
(***************************************************************************)
(* The announcements                                                       *)
(***************************************************************************)
News == {Kept(b) : b \in Bulletins} \cup {<< >>}
FetchStates == {"starting", "running", "answered", "raised", "landed", "cleared", "done"}
LoadStates == {"idle", "missed", "starting", "waiting", "reading", "served"}
FetchRecords == [at : FetchStates, of : Remotes, since : Nat, gen : Nat, got : News,
                 raised : BOOLEAN]
NewsRecords == [at : Nat, known : BOOLEAN, banners : News, of : Remotes \cup {NoRemote}, gen : Nat]
LoadRecords == [at : LoadStates, of : Remotes \cup {NoRemote}, fetch : Nat, late : BOOLEAN,
                got : NewsRecords]

NewsTyped ==
  /\ wired \in Remotes \cup {NoRemote}
  /\ bulletin \in [Remotes -> Bulletins]
  /\ kept \in [Remotes -> NewsRecords]
  /\ flight \in [Remotes -> Nat]
  /\ newsGen \in Nat /\ tick \in Nat
  /\ fetches \in Seq(FetchRecords)
  /\ loads \in [PageLoads -> LoadRecords]

\* A fetch was asked for by now, under this setting or an earlier one; and what it
\* raised, it says.
FetchesAreAsked ==
  \A f \in DOMAIN fetches :
    /\ fetches[f].since <= tick /\ fetches[f].gen <= newsGen
    /\ fetches[f].at = "raised" => fetches[f].raised

\* What is in flight is a fetch, and what a load has, too.
FlightIsAFetch == \A u \in Remotes : flight[u] # 0 => flight[u] \in DOMAIN fetches

LoadsHaveFetches ==
  \A l \in PageLoads :
    /\ loads[l].at = "idle" => loads[l] = NotAsked
    /\ loads[l].at = "missed" => loads[l].of \in Remotes /\ loads[l].fetch = 0
    /\ loads[l].fetch # 0 => loads[l].fetch \in DOMAIN fetches
    /\ loads[l].at \in {"starting", "waiting", "reading"} =>
         loads[l].fetch # 0 /\ loads[l].of = fetches[loads[l].fetch].of
    /\ loads[l].at = "reading" /\ ~loads[l].late => fetches[loads[l].fetch].at = "done"

\* The load that starts a fetch is the one that asked for it.
OneStarts ==
  \A l \in PageLoads : loads[l].at = "starting" =>
    /\ fetches[loads[l].fetch].at = "starting"
    /\ \A m \in PageLoads :
         loads[m].at = "starting" /\ loads[m].fetch = loads[l].fetch => m = l

\* A fetch that has landed, or was dropped for a reset, leaves nothing older than it.
NothingOlder ==
  \A f \in DOMAIN fetches :
    \/ fetches[f].at \in {"landed", "cleared", "done"} /\ ~fetches[f].raised
    \/ fetches[f].gen < newsGen
    => (kept[fetches[f].of].known => kept[fetches[f].of].at >= fetches[f].since)

KeptIsCurrent == \A u \in Remotes : kept[u].known => kept[u].of = u /\ kept[u].gen = newsGen
ShownIsCurrent ==
  \A l \in PageLoads : loads[l].at = "served" /\ loads[l].got.known =>
    /\ loads[l].got.of = loads[l].of
    /\ \/ loads[l].fetch = 0 \/ loads[l].late \/ fetches[loads[l].fetch].raised
       \/ loads[l].got.at >= fetches[loads[l].fetch].since

NewsInv ==
  /\ NewsTyped /\ FetchesAreAsked /\ FlightIsAFetch /\ LoadsHaveFetches /\ OneStarts
  /\ NothingOlder /\ OneFetch /\ KeptIsCurrent /\ ShownIsCurrent

LEMMA NothingKept == NoNews \in NewsRecords /\ ~NoNews.known
<1>1. << >> \in News
  BY DEF News
<1> QED
  BY <1>1 DEF NoNews, NewsRecords

LEMMA NotAskedTyped ==
  /\ NotAsked \in LoadRecords /\ NotAsked.at = "idle" /\ NotAsked.fetch = 0
  /\ ~NotAsked.got.known
BY NothingKept DEF NotAsked, LoadRecords, LoadStates

LEMMA NewsStarts == NewsInit => NewsInv
<1> SUFFICES ASSUME NewsInit  PROVE NewsInv
  OBVIOUS
<1>1. wired \in Remotes /\ bulletin \in [Remotes -> Bulletins]
  BY NewsAssumption DEF NewsInit
<1>2. fetches = << >> /\ DOMAIN fetches = {} /\ fetches \in Seq(FetchRecords)
  BY EmptySeq DEF NewsInit
<1>3. NewsTyped
  BY <1>1, <1>2, NothingKept, NotAskedTyped DEF NewsInit, NewsTyped
<1>4. LoadsHaveFetches /\ OneStarts /\ ShownIsCurrent
  BY NotAskedTyped DEF NewsInit, LoadsHaveFetches, OneStarts, ShownIsCurrent
<1>5. FetchesAreAsked /\ FlightIsAFetch /\ NothingOlder /\ OneFetch /\ KeptIsCurrent
  BY <1>2, NothingKept DEF NewsInit, FetchesAreAsked, FlightIsAFetch, NothingOlder, OneFetch,
                           KeptIsCurrent
<1> QED
  BY <1>3, <1>4, <1>5 DEF NewsInv

\* One fetch goes on, the others stay as they are.
LEMMA OneOfFetches ==
  ASSUME NewsTyped, NEW f \in DOMAIN fetches, NEW x \in FetchRecords,
         fetches' = [fetches EXCEPT ![f] = x]
  PROVE  /\ fetches' \in Seq(FetchRecords) /\ DOMAIN fetches' = DOMAIN fetches
         /\ fetches'[f] = x
         /\ \A g \in DOMAIN fetches : g # f => fetches'[g] = fetches[g]
BY ElementOfSeq DEF NewsTyped

LEMMA FetchTyped ==
  ASSUME NewsTyped, NEW f \in DOMAIN fetches
  PROVE  fetches[f] \in FetchRecords /\ f \in Nat \ {0}
BY ElementOfSeq DEF NewsTyped

\* A fetch that goes on is of what it was of, and takes nothing back.
LEMMA FetchGoesOn ==
  ASSUME NewsInv, NEW f \in DOMAIN fetches, NEW x \in FetchRecords,
         fetches' = [fetches EXCEPT ![f] = x], fetches[f].at \notin {"starting", "done"},
         x.of = fetches[f].of, x.since = fetches[f].since, x.gen = fetches[f].gen,
         fetches[f].raised => x.raised, x.at = "raised" => x.raised, x.at # "starting",
         UNCHANGED <<loads, newsGen, tick>>
  PROVE  FetchesAreAsked' /\ LoadsHaveFetches' /\ OneStarts' /\ ShownIsCurrent'
<1>1. /\ DOMAIN fetches' = DOMAIN fetches /\ fetches'[f] = x
      /\ \A g \in DOMAIN fetches : g # f => fetches'[g] = fetches[g]
  BY OneOfFetches DEF NewsInv
<1>2. \A g \in DOMAIN fetches :
        /\ fetches'[g].of = fetches[g].of /\ fetches'[g].since = fetches[g].since
        /\ fetches'[g].gen = fetches[g].gen
        /\ fetches[g].raised => fetches'[g].raised
        /\ fetches[g].at \in {"starting", "done"} => fetches'[g].at = fetches[g].at
        /\ fetches'[g].at = "raised" => fetches'[g].raised
  BY <1>1 DEF NewsInv, FetchesAreAsked
<1>3. FetchesAreAsked'
  BY <1>1, <1>2 DEF NewsInv, FetchesAreAsked
<1>4. LoadsHaveFetches'
  BY <1>1, <1>2 DEF NewsInv, LoadsHaveFetches
<1>5. \A l \in PageLoads : loads[l].fetch # 0 => loads[l].fetch \in DOMAIN fetches
  BY DEF NewsInv, LoadsHaveFetches
<1>6. OneStarts'
  <2>1. \A l \in PageLoads : loads[l].at = "starting" => loads[l].fetch \in DOMAIN fetches
    BY DEF NewsInv, LoadsHaveFetches
  <2> QED
    BY <1>2, <2>1 DEF NewsInv, OneStarts
<1>7. ShownIsCurrent'
  BY <1>2, <1>5 DEF NewsInv, ShownIsCurrent
<1> QED
  BY <1>3, <1>4, <1>6, <1>7

\* A fetch that is over gives up its remote, unless a later one has it.
LEMMA FetchEnds ==
  ASSUME NewsInv, NEW f \in DOMAIN fetches, NEW x \in FetchRecords,
         fetches' = [fetches EXCEPT ![f] = x], x.of = fetches[f].of, x.at \notin Ongoing,
         flight' = Cleared(f), UNCHANGED newsGen
  PROVE  flight' \in [Remotes -> Nat] /\ FlightIsAFetch' /\ OneFetch'
<1>1. /\ DOMAIN fetches' = DOMAIN fetches /\ fetches'[f] = x
      /\ \A g \in DOMAIN fetches : g # f => fetches'[g] = fetches[g]
  BY OneOfFetches DEF NewsInv
<1>2. \A g \in DOMAIN fetches : g \in Nat \ {0} /\ fetches[g].of \in Remotes
  BY FetchTyped DEF NewsInv, FetchRecords
<1>3. flight \in [Remotes -> Nat]
  BY DEF NewsInv, NewsTyped
<1>4. /\ flight' \in [Remotes -> Nat]
      /\ \A u \in Remotes : flight'[u] = IF u = fetches[f].of /\ flight[u] = f THEN 0 ELSE flight[u]
  BY <1>2, <1>3 DEF Cleared
<1>5. FlightIsAFetch'
  BY <1>1, <1>4 DEF NewsInv, FlightIsAFetch
<1>6. ASSUME NEW g \in DOMAIN fetches', fetches'[g].at \in Ongoing, SameGen(g)'
      PROVE  flight'[fetches'[g].of] = g
  <2>1. g # f /\ fetches'[g] = fetches[g] /\ g \in DOMAIN fetches
    BY <1>1, <1>6
  <2>2. flight[fetches[g].of] = g
    BY <1>6, <2>1 DEF NewsInv, OneFetch, SameGen
  <2> QED
    BY <1>2, <1>4, <2>1, <2>2
<1>7. ASSUME NEW u \in Remotes, flight'[u] # 0
      PROVE  /\ fetches'[flight'[u]].of = u /\ fetches'[flight'[u]].gen = newsGen'
             /\ fetches'[flight'[u]].at \in Ongoing
  <2>1. flight'[u] = flight[u] /\ flight[u] # 0
    BY <1>4, <1>7
  <2>2. /\ fetches[flight[u]].of = u /\ SameGen(flight[u]) /\ fetches[flight[u]].at \in Ongoing
        /\ flight[u] \in DOMAIN fetches
    BY <2>1 DEF NewsInv, OneFetch, FlightIsAFetch
  <2>3. flight[u] # f
    BY <1>4, <1>7, <2>1, <2>2
  <2> QED
    BY <1>1, <2>1, <2>2, <2>3 DEF SameGen
<1>8. OneFetch'
  BY <1>6, <1>7 DEF OneFetch, SameGen
<1> QED
  BY <1>4, <1>5, <1>8

\* A fetch under way that stays so keeps its remote.
LEMMA FetchStays ==
  ASSUME NewsInv, NEW f \in DOMAIN fetches, NEW x \in FetchRecords,
         fetches' = [fetches EXCEPT ![f] = x], x.of = fetches[f].of, x.gen = fetches[f].gen,
         x.at \in Ongoing <=> fetches[f].at \in Ongoing, UNCHANGED <<flight, newsGen>>
  PROVE  FlightIsAFetch' /\ OneFetch'
<1>1. /\ DOMAIN fetches' = DOMAIN fetches /\ fetches'[f] = x
      /\ \A g \in DOMAIN fetches : g # f => fetches'[g] = fetches[g]
  BY OneOfFetches DEF NewsInv
<1>2. \A g \in DOMAIN fetches :
        /\ fetches'[g].of = fetches[g].of /\ fetches'[g].gen = fetches[g].gen
        /\ fetches'[g].at \in Ongoing <=> fetches[g].at \in Ongoing
  BY <1>1
<1>3. FlightIsAFetch'
  BY <1>1 DEF NewsInv, FlightIsAFetch
<1>4. OneFetch'
  BY <1>1, <1>2 DEF NewsInv, OneFetch, FlightIsAFetch, SameGen
<1> QED
  BY <1>3, <1>4

LEMMA SourceSteps ==
  ASSUME NewsInv, NEW f \in DOMAIN fetches, SourceEnds(f)
  PROVE  NewsInv'
<1>1. UNCHANGED <<wired, bulletin, kept, flight, newsGen, loads, tick>> /\ fetches[f].at = "running"
  BY DEF SourceEnds
<1>2. fetches[f] \in FetchRecords /\ fetches[f].of \in Remotes
  BY FetchTyped DEF NewsInv, FetchRecords
<1>3. AnswersOf(fetches[f].of) \subseteq News
  BY <1>2 DEF AnswersOf, News, NewsInv, NewsTyped
<1>4. PICK x \in FetchRecords :
        /\ fetches' = [fetches EXCEPT ![f] = x]
        /\ x.of = fetches[f].of /\ x.since = fetches[f].since /\ x.gen = fetches[f].gen
        /\ \/ x.at = "answered" /\ x.raised = fetches[f].raised
           \/ x.at = "raised" /\ x.raised = TRUE
  <2>1. CASE \E o \in AnswersOf(fetches[f].of) :
               fetches' = [fetches EXCEPT ![f].at = "answered", ![f].got = o]
    <3> PICK o \in AnswersOf(fetches[f].of) :
               fetches' = [fetches EXCEPT ![f].at = "answered", ![f].got = o]
      BY <2>1
    <3> DEFINE x == [fetches[f] EXCEPT !.at = "answered", !.got = o]
    <3>1. fetches' = [fetches EXCEPT ![f] = x]
      OBVIOUS
    <3>2. /\ x \in FetchRecords /\ x.of = fetches[f].of /\ x.since = fetches[f].since
          /\ x.gen = fetches[f].gen /\ x.at = "answered" /\ x.raised = fetches[f].raised
      BY <1>2, <1>3 DEF FetchRecords, FetchStates
    <3> QED
      BY <3>1, <3>2
  <2>2. CASE fetches' = [fetches EXCEPT ![f].at = "raised", ![f].raised = TRUE]
    <3> DEFINE x == [fetches[f] EXCEPT !.at = "raised", !.raised = TRUE]
    <3>1. fetches' = [fetches EXCEPT ![f] = x]
      BY <2>2
    <3>2. /\ x \in FetchRecords /\ x.of = fetches[f].of /\ x.since = fetches[f].since
          /\ x.gen = fetches[f].gen /\ x.at = "raised" /\ x.raised = TRUE
      BY <1>2 DEF FetchRecords, FetchStates
    <3> QED
      BY <3>1, <3>2
  <2> QED
    BY <2>1, <2>2 DEF SourceEnds
<1>5. /\ fetches' \in Seq(FetchRecords) /\ DOMAIN fetches' = DOMAIN fetches /\ fetches'[f] = x
      /\ \A g \in DOMAIN fetches : g # f => fetches'[g] = fetches[g]
  BY <1>4, OneOfFetches DEF NewsInv
<1>6. NewsTyped'
  BY <1>1, <1>5 DEF NewsInv, NewsTyped
<1>7. FetchesAreAsked' /\ LoadsHaveFetches' /\ OneStarts' /\ ShownIsCurrent'
  BY <1>1, <1>4, FetchGoesOn
<1>8. FlightIsAFetch' /\ OneFetch'
  BY <1>1, <1>4, FetchStays DEF Ongoing
<1>9. NothingOlder'
  BY <1>1, <1>4, <1>5 DEF NewsInv, NothingOlder
<1>10. KeptIsCurrent'
  BY <1>1 DEF NewsInv, KeptIsCurrent
<1> QED
  BY <1>6, <1>7, <1>8, <1>9, <1>10 DEF NewsInv

LEMMA LandSteps ==
  ASSUME NewsInv, NEW f \in DOMAIN fetches, Lands(f)
  PROVE  NewsInv'
<1>1. UNCHANGED <<wired, bulletin, flight, newsGen, loads, tick>> /\ fetches[f].at = "answered"
  BY DEF Lands
<1>2. fetches[f] \in FetchRecords /\ fetches[f].of \in Remotes
  BY FetchTyped DEF NewsInv, FetchRecords
<1> DEFINE x == [fetches[f] EXCEPT !.at = "landed"]
           k == [at |-> tick, known |-> TRUE, banners |-> fetches[f].got,
                 of |-> fetches[f].of, gen |-> fetches[f].gen]
<1>3. fetches' = [fetches EXCEPT ![f] = x]
  BY DEF Lands, Moves
<1>4. /\ x \in FetchRecords /\ x.at = "landed" /\ x.of = fetches[f].of
      /\ x.since = fetches[f].since /\ x.gen = fetches[f].gen /\ x.raised = fetches[f].raised
  BY <1>2 DEF FetchRecords, FetchStates
<1>5. k \in NewsRecords /\ k.at = tick /\ k.known /\ k.of = fetches[f].of /\ k.gen = fetches[f].gen
  BY <1>2 DEF FetchRecords, NewsRecords, NewsInv, NewsTyped
<1>6. kept' = IF SameGen(f) THEN [kept EXCEPT ![fetches[f].of] = k] ELSE kept
  BY DEF Lands
<1> HIDE DEF x, k
<1>7. /\ fetches' \in Seq(FetchRecords) /\ DOMAIN fetches' = DOMAIN fetches /\ fetches'[f] = x
      /\ \A g \in DOMAIN fetches : g # f => fetches'[g] = fetches[g]
  BY <1>3, <1>4, OneOfFetches DEF NewsInv
<1>8. /\ kept' \in [Remotes -> NewsRecords]
      /\ \A u \in Remotes : \/ kept'[u] = kept[u] /\ ~(u = fetches[f].of /\ SameGen(f))
                            \/ kept'[u] = k /\ u = fetches[f].of /\ SameGen(f)
  BY <1>2, <1>5, <1>6 DEF NewsInv, NewsTyped
<1>9. NewsTyped'
  BY <1>1, <1>7, <1>8 DEF NewsInv, NewsTyped
<1>10. FetchesAreAsked' /\ LoadsHaveFetches' /\ OneStarts' /\ ShownIsCurrent'
  BY <1>1, <1>3, <1>4, FetchGoesOn
<1>11. FlightIsAFetch' /\ OneFetch'
  BY <1>1, <1>3, <1>4, FetchStays DEF Ongoing
<1>12. \A g \in DOMAIN fetches :
         /\ fetches'[g].of = fetches[g].of /\ fetches'[g].since = fetches[g].since
         /\ fetches'[g].gen = fetches[g].gen /\ fetches[g].of \in Remotes
         /\ fetches[g].since <= tick /\ fetches[g].gen <= newsGen /\ fetches[g].gen \in Nat
  BY <1>4, <1>7, FetchTyped DEF NewsInv, FetchesAreAsked, FetchRecords
<1>13. NothingOlder'
  <2> SUFFICES ASSUME NEW g \in DOMAIN fetches,
                      \/ fetches'[g].at \in {"landed", "cleared", "done"} /\ ~fetches'[g].raised
                      \/ fetches[g].gen < newsGen,
                      kept'[fetches[g].of].known
               PROVE  kept'[fetches[g].of].at >= fetches[g].since
    BY <1>1, <1>7, <1>12 DEF NothingOlder
  <2>1. CASE kept'[fetches[g].of] = k
    BY <1>5, <1>12, <2>1
  <2>2. CASE kept'[fetches[g].of] = kept[fetches[g].of] /\ ~(fetches[g].of = fetches[f].of /\ SameGen(f))
    <3>1. CASE g = f
      <4>1. fetches[g].gen < newsGen
        BY <1>12, <2>2, <3>1 DEF SameGen, NewsInv, NewsTyped
      <4> QED
        BY <2>2, <4>1 DEF NewsInv, NothingOlder
    <3>2. CASE g # f
      BY <1>7, <2>2, <3>2 DEF NewsInv, NothingOlder
    <3> QED
      BY <3>1, <3>2
  <2> QED
    BY <1>8, <1>12, <2>1, <2>2
<1>14. KeptIsCurrent'
  BY <1>1, <1>5, <1>8 DEF NewsInv, KeptIsCurrent, SameGen
<1> QED
  BY <1>9, <1>10, <1>11, <1>13, <1>14 DEF NewsInv

LEMMA ClearSteps ==
  ASSUME NewsInv, NEW f \in DOMAIN fetches, Clears(f) \/ EndsFetch(f)
  PROVE  NewsInv'
<1>1. UNCHANGED <<wired, bulletin, kept, newsGen, loads, tick>>
  BY DEF Clears, EndsFetch
<1>2. fetches[f] \in FetchRecords
  BY FetchTyped DEF NewsInv
<1>3. PICK to \in {"cleared", "done"} :
        /\ fetches' = [fetches EXCEPT ![f].at = to]
        /\ \/ fetches[f].at \in {"landed", "raised"} /\ flight' = Cleared(f)
           \/ fetches[f].at = "cleared" /\ UNCHANGED flight
  BY DEF Clears, EndsFetch, Moves
<1> DEFINE x == [fetches[f] EXCEPT !.at = to]
<1>4. fetches' = [fetches EXCEPT ![f] = x]
  BY <1>3
<1>5. /\ x \in FetchRecords /\ x.at = to /\ x.of = fetches[f].of
      /\ x.since = fetches[f].since /\ x.gen = fetches[f].gen /\ x.raised = fetches[f].raised
  BY <1>2 DEF FetchRecords, FetchStates
<1> HIDE DEF x
<1>6. /\ fetches' \in Seq(FetchRecords) /\ DOMAIN fetches' = DOMAIN fetches /\ fetches'[f] = x
      /\ \A g \in DOMAIN fetches : g # f => fetches'[g] = fetches[g]
  BY <1>4, <1>5, OneOfFetches DEF NewsInv
<1>7. flight' \in [Remotes -> Nat] /\ FlightIsAFetch' /\ OneFetch'
  <2>1. CASE flight' = Cleared(f)
    BY <1>1, <1>4, <1>5, <2>1, FetchEnds DEF Ongoing
  <2>2. CASE fetches[f].at = "cleared" /\ UNCHANGED flight
    BY <1>1, <1>4, <1>5, <2>2, FetchStays DEF Ongoing, NewsInv, NewsTyped
  <2> QED
    BY <1>3, <2>1, <2>2
<1>8. NewsTyped'
  BY <1>1, <1>6, <1>7 DEF NewsInv, NewsTyped
<1>9. FetchesAreAsked' /\ LoadsHaveFetches' /\ OneStarts' /\ ShownIsCurrent'
  BY <1>1, <1>3, <1>4, <1>5, FetchGoesOn
<1>10. ~x.raised => fetches[f].at \in {"landed", "cleared"}
  BY <1>3, <1>5 DEF NewsInv, FetchesAreAsked
<1>11. NothingOlder'
  BY <1>1, <1>5, <1>6, <1>10 DEF NewsInv, NothingOlder
<1>12. KeptIsCurrent'
  BY <1>1 DEF NewsInv, KeptIsCurrent
<1> QED
  BY <1>7, <1>8, <1>9, <1>11, <1>12 DEF NewsInv

LEMMA OneOfLoads ==
  ASSUME NewsTyped, NEW l \in PageLoads, NEW y \in LoadRecords, loads' = [loads EXCEPT ![l] = y]
  PROVE  /\ loads' \in [PageLoads -> LoadRecords] /\ loads'[l] = y
         /\ \A m \in PageLoads : m # l => loads'[m] = loads[m]
BY DEF NewsTyped

\* What a load is owed by what it does next.
LoadIsSound(y) ==
  /\ y.at # "idle"
  /\ y.at = "missed" => y.of \in Remotes /\ y.fetch = 0
  /\ y.fetch # 0 => y.fetch \in DOMAIN fetches
  /\ y.at \in {"starting", "waiting", "reading"} => y.fetch # 0 /\ y.of = fetches[y.fetch].of
  /\ y.at = "reading" /\ ~y.late => fetches[y.fetch].at = "done"
  /\ y.at = "served" /\ y.got.known =>
       /\ y.got.of = y.of
       /\ \/ y.fetch = 0 \/ y.late \/ fetches[y.fetch].raised
          \/ y.got.at >= fetches[y.fetch].since

LEMMA LoadGoesOn ==
  ASSUME NewsInv, NEW l \in PageLoads, NEW y \in LoadRecords,
         loads' = [loads EXCEPT ![l] = y], LoadIsSound(y), y.at # "starting",
         UNCHANGED <<wired, bulletin, kept, flight, newsGen, fetches, tick>>
  PROVE  NewsInv'
<1>1. /\ loads' \in [PageLoads -> LoadRecords] /\ loads'[l] = y
      /\ \A m \in PageLoads : m # l => loads'[m] = loads[m]
  BY OneOfLoads DEF NewsInv
<1>2. NewsTyped'
  BY <1>1 DEF NewsInv, NewsTyped
<1>3. LoadsHaveFetches'
  BY <1>1 DEF NewsInv, LoadsHaveFetches, LoadIsSound
<1>4. OneStarts'
  BY <1>1 DEF NewsInv, OneStarts
<1>5. ShownIsCurrent'
  BY <1>1 DEF NewsInv, ShownIsCurrent, LoadIsSound
<1>6. FetchesAreAsked' /\ FlightIsAFetch' /\ NothingOlder' /\ OneFetch' /\ KeptIsCurrent'
  BY DEF NewsInv, FetchesAreAsked, FlightIsAFetch, NothingOlder, OneFetch, KeptIsCurrent, SameGen
<1> QED
  BY <1>2, <1>3, <1>4, <1>5, <1>6 DEF NewsInv

LEMMA AskedSteps ==
  ASSUME NewsInv, NEW l \in PageLoads, Asks(l)
  PROVE  NewsInv'
<1>1. loads[l] = NotAsked /\ UNCHANGED <<wired, bulletin, kept, flight, newsGen, fetches, tick>>
  BY DEF Asks, NewsInv, LoadsHaveFetches
<1> DEFINE y == IF wired = NoRemote THEN [NotAsked EXCEPT !.at = "served"]
                ELSE IF kept[wired].known /\ tick - kept[wired].at < NewsTtl
                THEN [NotAsked EXCEPT !.at = "served", !.of = wired, !.got = kept[wired]]
                ELSE [NotAsked EXCEPT !.at = "missed", !.of = wired]
<1>2. loads' = [loads EXCEPT ![l] = y]
  BY <1>1 DEF Asks
<1>3. CASE wired = NoRemote
  <2>1. y = [NotAsked EXCEPT !.at = "served"]
    BY <1>3
  <2>2. y \in LoadRecords /\ LoadIsSound(y) /\ y.at = "served"
    BY <2>1, NotAskedTyped DEF LoadRecords, LoadStates, LoadIsSound
  <2> QED
    BY <1>1, <1>2, <2>2, LoadGoesOn
<1>4. CASE wired \in Remotes
  <2>1. wired # NoRemote /\ kept[wired] \in NewsRecords
    BY <1>4, NewsAssumption DEF NewsInv, NewsTyped
  <2>2. CASE y = [NotAsked EXCEPT !.at = "served", !.of = wired, !.got = kept[wired]]
    <3>1. kept[wired].known => kept[wired].of = wired
      BY <1>4 DEF NewsInv, KeptIsCurrent
    <3>2. /\ y \in LoadRecords /\ y.at = "served" /\ y.of = wired /\ y.got = kept[wired]
          /\ y.fetch = 0
      BY <1>4, <2>1, <2>2, NotAskedTyped DEF LoadRecords, LoadStates
    <3>3. LoadIsSound(y)
      BY <3>1, <3>2 DEF LoadIsSound
    <3> QED
      BY <1>1, <1>2, <3>2, <3>3, LoadGoesOn
  <2>3. CASE y = [NotAsked EXCEPT !.at = "missed", !.of = wired]
    <3>1. y \in LoadRecords /\ y.at = "missed" /\ y.of = wired /\ y.fetch = 0
      BY <1>4, <2>3, NotAskedTyped DEF LoadRecords, LoadStates
    <3>2. LoadIsSound(y)
      BY <1>4, <3>1 DEF LoadIsSound
    <3> QED
      BY <1>1, <1>2, <3>1, <3>2, LoadGoesOn
  <2> QED
    BY <2>1, <2>2, <2>3
<1> QED
  BY <1>3, <1>4 DEF NewsInv, NewsTyped

LEMMA ReadSteps ==
  ASSUME NewsInv, NEW l \in PageLoads, StopsWaiting(l) \/ ShowsNews(l)
  PROVE  NewsInv'
<1> DEFINE f == loads[l].fetch
<1>1. UNCHANGED <<wired, bulletin, kept, flight, newsGen, fetches, tick>>
  BY DEF StopsWaiting, ShowsNews
<1>2. loads[l].at \in {"waiting", "reading"} /\ loads[l] \in LoadRecords
  BY DEF StopsWaiting, ShowsNews, NewsInv, NewsTyped
<1>3. f # 0 /\ f \in DOMAIN fetches /\ loads[l].of = fetches[f].of
  BY <1>2 DEF NewsInv, LoadsHaveFetches
<1>4. fetches[f].of \in Remotes
  BY <1>3, FetchTyped DEF NewsInv, FetchRecords
<1>5. CASE StopsWaiting(l)
  <2> DEFINE late == fetches[f].at # "done"
             y == [loads[l] EXCEPT !.at = "reading", !.late = late]
  <2>1. loads' = [loads EXCEPT ![l] = y]
    BY <1>5 DEF StopsWaiting
  <2>2. late \in BOOLEAN
    OBVIOUS
  <2>3. ~late => fetches[f].at = "done"
    OBVIOUS
  <2> HIDE DEF late
  <2>4. /\ y \in LoadRecords /\ y.at = "reading" /\ y.fetch = f /\ y.of = loads[l].of /\ y.late = late
    BY <1>2, <2>2 DEF LoadRecords, LoadStates
  <2> HIDE DEF y, f
  <2>5. LoadIsSound(y)
    BY <1>3, <2>3, <2>4 DEF LoadIsSound
  <2> QED
    BY <1>1, <2>1, <2>4, <2>5, LoadGoesOn
<1>6. CASE ShowsNews(l)
  <2> DEFINE k == kept[loads[l].of]
             y == [loads[l] EXCEPT !.at = "served", !.got = k]
  <2>1. loads' = [loads EXCEPT ![l] = y]
    BY <1>6 DEF ShowsNews, Answers
  <2>2. k \in NewsRecords
    BY <1>3, <1>4 DEF NewsInv, NewsTyped
  <2>3. /\ loads[l].late \/ fetches[f].at = "done"
        /\ k.known => k.of = loads[l].of
    BY <1>3, <1>4, <1>6 DEF ShowsNews, NewsInv, LoadsHaveFetches, KeptIsCurrent
  <2>4. k.known /\ ~loads[l].late /\ ~fetches[f].raised => k.at >= fetches[f].since
    BY <1>3, <2>3 DEF NewsInv, NothingOlder
  <2> HIDE DEF k
  <2>5. /\ y \in LoadRecords /\ y.at = "served" /\ y.fetch = f /\ y.of = loads[l].of
        /\ y.late = loads[l].late /\ y.got = k
    BY <1>2, <2>2 DEF LoadRecords, LoadStates
  <2> HIDE DEF y, f
  <2>6. LoadIsSound(y)
    BY <1>3, <2>3, <2>4, <2>5 DEF LoadIsSound
  <2> QED
    BY <1>1, <2>1, <2>5, <2>6, LoadGoesOn
<1> QED
  BY <1>5, <1>6

\* The load that finds no fetch of its remote is the one that makes it.
LEMMA JoinSteps ==
  ASSUME NewsInv, NEW l \in PageLoads, Joins(l)
  PROVE  NewsInv'
<1> DEFINE u == loads[l].of
           new == Len(fetches) + 1
<1>1. UNCHANGED <<wired, bulletin, kept, newsGen, tick>> /\ loads[l].at = "missed"
  BY DEF Joins
<1>2. u \in Remotes /\ loads[l].fetch = 0 /\ loads[l] \in LoadRecords
  BY <1>1 DEF NewsInv, LoadsHaveFetches, NewsTyped
<1>3. flight \in [Remotes -> Nat] /\ fetches \in Seq(FetchRecords) /\ newsGen \in Nat /\ tick \in Nat
  BY DEF NewsInv, NewsTyped
<1>4. CASE flight[u] # 0
  <2> DEFINE y == [loads[l] EXCEPT !.at = "waiting", !.fetch = flight[u]]
  <2>1. loads' = [loads EXCEPT ![l] = y] /\ UNCHANGED <<fetches, flight>>
    BY <1>4 DEF Joins
  <2>2. /\ y \in LoadRecords /\ y.at = "waiting" /\ y.fetch = flight[u] /\ y.of = u
    BY <1>2, <1>3 DEF LoadRecords, LoadStates
  <2>3. flight[u] \in DOMAIN fetches /\ fetches[flight[u]].of = u
    BY <1>2, <1>4 DEF NewsInv, FlightIsAFetch, OneFetch
  <2> HIDE DEF y, u
  <2>4. LoadIsSound(y)
    BY <1>4, <2>2, <2>3 DEF LoadIsSound
  <2> QED
    BY <1>1, <2>1, <2>2, <2>4, LoadGoesOn
<1>5. CASE flight[u] = 0
  <2> DEFINE y == [loads[l] EXCEPT !.at = "starting", !.fetch = new]
             x == [at |-> "starting", of |-> u, since |-> tick, gen |-> newsGen, got |-> << >>,
                   raised |-> FALSE]
  <2>1. /\ loads' = [loads EXCEPT ![l] = y] /\ flight' = [flight EXCEPT ![u] = new]
        /\ fetches' = Append(fetches, x)
    BY <1>5 DEF Joins
  <2>2. new \in Nat \ {0} /\ new \notin DOMAIN fetches
    BY <1>3
  <2>3. y \in LoadRecords /\ y.at = "starting" /\ y.fetch = new /\ y.of = u
    BY <1>2, <2>2 DEF LoadRecords, LoadStates
  <2>4. << >> \in News
    BY DEF News
  <2>5. x \in FetchRecords
    BY <1>2, <1>3, <2>4 DEF FetchRecords, FetchStates
  <2>6. /\ x.at = "starting" /\ x.of = u /\ x.since = tick /\ x.gen = newsGen /\ ~x.raised
    OBVIOUS
  <2>7. /\ fetches' \in Seq(FetchRecords) /\ DOMAIN fetches' = DOMAIN fetches \cup {new}
        /\ fetches'[new] = x /\ \A g \in DOMAIN fetches : fetches'[g] = fetches[g]
    BY <1>3, <2>1, <2>5, AppendProperties
  <2> HIDE DEF x, y, new, u
  <2>8. /\ loads' \in [PageLoads -> LoadRecords] /\ loads'[l] = y
        /\ \A m \in PageLoads : m # l => loads'[m] = loads[m]
    BY <2>1, <2>3, OneOfLoads DEF NewsInv
  <2>9. /\ flight' \in [Remotes -> Nat] /\ flight'[u] = new
        /\ \A v \in Remotes : v # u => flight'[v] = flight[v]
    BY <1>2, <1>3, <2>1, <2>2
  <2>10. NewsTyped'
    BY <1>1, <2>7, <2>8, <2>9 DEF NewsInv, NewsTyped
  <2>11. FetchesAreAsked'
    BY <1>1, <1>3, <2>6, <2>7 DEF NewsInv, FetchesAreAsked
  <2>12. FlightIsAFetch'
    BY <2>7, <2>9 DEF NewsInv, FlightIsAFetch
  <2>13. \A m \in PageLoads : m # l /\ loads[m].fetch # 0 =>
           loads[m].fetch \in DOMAIN fetches /\ fetches'[loads[m].fetch] = fetches[loads[m].fetch]
    BY <2>7 DEF NewsInv, LoadsHaveFetches
  <2>14. LoadsHaveFetches'
    <3> SUFFICES ASSUME NEW m \in PageLoads
                 PROVE  /\ loads'[m].at = "idle" => loads'[m] = NotAsked
                        /\ loads'[m].at = "missed" => loads'[m].of \in Remotes /\ loads'[m].fetch = 0
                        /\ loads'[m].fetch # 0 => loads'[m].fetch \in DOMAIN fetches'
                        /\ loads'[m].at \in {"starting", "waiting", "reading"} =>
                             loads'[m].fetch # 0 /\ loads'[m].of = fetches'[loads'[m].fetch].of
                        /\ loads'[m].at = "reading" /\ ~loads'[m].late =>
                             fetches'[loads'[m].fetch].at = "done"
      BY DEF LoadsHaveFetches
    <3>1. CASE m = l
      BY <2>2, <2>3, <2>6, <2>7, <2>8, <3>1
    <3>2. CASE m # l
      BY <2>7, <2>8, <2>13, <3>2 DEF NewsInv, LoadsHaveFetches
    <3> QED
      BY <3>1, <3>2
  <2>15. OneStarts'
    <3>1. \A m \in PageLoads : m # l /\ loads[m].at = "starting" =>
            loads[m].fetch # new /\ fetches'[loads[m].fetch].at = "starting"
      BY <2>2, <2>13 DEF NewsInv, LoadsHaveFetches, OneStarts
    <3> QED
      BY <2>3, <2>6, <2>7, <2>8, <3>1 DEF NewsInv, OneStarts
  <2>16. ShownIsCurrent'
    BY <2>3, <2>8, <2>13 DEF NewsInv, ShownIsCurrent
  <2>17. NothingOlder'
    BY <1>1, <1>3, <2>6, <2>7 DEF NewsInv, NothingOlder
  <2>18. OneFetch'
    <3>1. ASSUME NEW g \in DOMAIN fetches', fetches'[g].at \in Ongoing, SameGen(g)'
          PROVE  flight'[fetches'[g].of] = g
      <4>1. CASE g = new
        BY <2>6, <2>7, <2>9, <4>1
      <4>2. CASE g # new
        <5>1. g \in DOMAIN fetches /\ fetches'[g] = fetches[g] /\ g # 0 /\ fetches[g].of \in Remotes
          BY <2>7, <4>2, FetchTyped DEF NewsInv, FetchRecords
        <5>2. flight[fetches[g].of] = g
          BY <1>1, <3>1, <5>1 DEF NewsInv, OneFetch, SameGen
        <5> QED
          BY <1>5, <2>9, <5>1, <5>2
      <4> QED
        BY <4>1, <4>2
    <3>2. ASSUME NEW v \in Remotes, flight'[v] # 0
          PROVE  /\ fetches'[flight'[v]].of = v /\ fetches'[flight'[v]].gen = newsGen'
                 /\ fetches'[flight'[v]].at \in Ongoing
      <4>1. CASE v = u
        BY <1>1, <2>6, <2>7, <2>9, <4>1 DEF Ongoing
      <4>2. CASE v # u
        BY <1>1, <2>7, <2>9, <3>2, <4>2 DEF NewsInv, OneFetch, FlightIsAFetch, SameGen
      <4> QED
        BY <4>1, <4>2
    <3> QED
      BY <3>1, <3>2 DEF OneFetch, SameGen
  <2>19. KeptIsCurrent'
    BY <1>1 DEF NewsInv, KeptIsCurrent
  <2> QED
    BY <2>10, <2>11, <2>12, <2>14, <2>15, <2>16, <2>17, <2>18, <2>19 DEF NewsInv
<1> QED
  BY <1>4, <1>5

\* The thread of a fetch starts, or the fetch ends before it has begun.
LEMMA StartSteps ==
  ASSUME NewsInv, NEW l \in PageLoads, Starts(l)
  PROVE  NewsInv'
<1> DEFINE f == loads[l].fetch
<1>1. UNCHANGED <<wired, bulletin, kept, newsGen, tick>> /\ loads[l].at = "starting"
  BY DEF Starts
<1>2. /\ f # 0 /\ f \in DOMAIN fetches /\ loads[l].of = fetches[f].of
      /\ fetches[f].at = "starting" /\ loads[l] \in LoadRecords
  BY <1>1 DEF NewsInv, LoadsHaveFetches, OneStarts, NewsTyped
<1>3. fetches[f] \in FetchRecords /\ fetches[f].of \in Remotes
  BY <1>2, FetchTyped DEF NewsInv, FetchRecords
<1>4. PICK x \in FetchRecords, y \in LoadRecords :
        /\ fetches' = [fetches EXCEPT ![f] = x] /\ loads' = [loads EXCEPT ![l] = y]
        /\ x.of = fetches[f].of /\ x.since = fetches[f].since /\ x.gen = fetches[f].gen
        /\ fetches[f].raised => x.raised
        /\ y.fetch = f /\ y.of = loads[l].of
        /\ \/ x.at = "running" /\ UNCHANGED flight /\ y.at = "waiting"
           \/ x.at = "done" /\ x.raised /\ flight' = Cleared(f) /\ y.at = "served" /\ ~y.got.known
  <2>1. CASE Moves(f, "running") /\ loads' = [loads EXCEPT ![l].at = "waiting"] /\ UNCHANGED flight
    <3> DEFINE x == [fetches[f] EXCEPT !.at = "running"]
               y == [loads[l] EXCEPT !.at = "waiting"]
    <3>1. fetches' = [fetches EXCEPT ![f] = x] /\ loads' = [loads EXCEPT ![l] = y]
      BY <2>1 DEF Moves
    <3>2. /\ x \in FetchRecords /\ x.of = fetches[f].of /\ x.since = fetches[f].since
          /\ x.gen = fetches[f].gen /\ x.at = "running" /\ x.raised = fetches[f].raised
      BY <1>3 DEF FetchRecords, FetchStates
    <3>3. y \in LoadRecords /\ y.at = "waiting" /\ y.fetch = loads[l].fetch /\ y.of = loads[l].of
      BY <1>2 DEF LoadRecords, LoadStates
    <3> HIDE DEF x, y
    <3> QED
      BY <2>1, <3>1, <3>2, <3>3
  <2>2. CASE /\ fetches' = [fetches EXCEPT ![f].at = "done", ![f].raised = TRUE]
             /\ flight' = Cleared(f) /\ Answers(l, NoNews)
    <3> DEFINE x == [fetches[f] EXCEPT !.at = "done", !.raised = TRUE]
               y == [loads[l] EXCEPT !.at = "served", !.got = NoNews]
    <3>1. fetches' = [fetches EXCEPT ![f] = x] /\ loads' = [loads EXCEPT ![l] = y]
      BY <2>2 DEF Answers
    <3>2. /\ x \in FetchRecords /\ x.of = fetches[f].of /\ x.since = fetches[f].since
          /\ x.gen = fetches[f].gen /\ x.at = "done" /\ x.raised = TRUE
      BY <1>3 DEF FetchRecords, FetchStates
    <3>3. /\ y \in LoadRecords /\ y.at = "served" /\ y.fetch = loads[l].fetch /\ y.of = loads[l].of
          /\ ~y.got.known
      BY <1>2, NothingKept DEF LoadRecords, LoadStates
    <3> HIDE DEF x, y
    <3> QED
      BY <2>2, <3>1, <3>2, <3>3
  <2> QED
    BY <2>1, <2>2 DEF Starts
<1> HIDE DEF f
<1>5. /\ fetches' \in Seq(FetchRecords) /\ DOMAIN fetches' = DOMAIN fetches /\ fetches'[f] = x
      /\ \A g \in DOMAIN fetches : g # f => fetches'[g] = fetches[g]
  BY <1>2, <1>4, OneOfFetches DEF NewsInv
<1>6. /\ loads' \in [PageLoads -> LoadRecords] /\ loads'[l] = y
      /\ \A m \in PageLoads : m # l => loads'[m] = loads[m]
  BY <1>4, OneOfLoads DEF NewsInv
<1>7. flight' \in [Remotes -> Nat] /\ FlightIsAFetch' /\ OneFetch'
  <2>1. CASE x.at = "running" /\ UNCHANGED flight
    <3>1. FlightIsAFetch' /\ OneFetch'
      BY <1>1, <1>2, <1>4, <2>1, FetchStays DEF Ongoing
    <3> QED
      BY <2>1, <3>1 DEF NewsInv, NewsTyped
  <2>2. CASE x.at = "done" /\ flight' = Cleared(f)
    BY <1>1, <1>2, <1>4, <2>2, FetchEnds DEF Ongoing
  <2> QED
    BY <1>4, <2>1, <2>2
<1>8. NewsTyped'
  BY <1>1, <1>5, <1>6, <1>7 DEF NewsInv, NewsTyped
<1>9. \A g \in DOMAIN fetches :
        /\ fetches'[g].of = fetches[g].of /\ fetches'[g].since = fetches[g].since
        /\ fetches'[g].gen = fetches[g].gen
        /\ fetches[g].raised => fetches'[g].raised
        /\ fetches[g].at = "done" => fetches'[g].at = "done"
        /\ g # f => fetches'[g].at = fetches[g].at
  BY <1>2, <1>4, <1>5
<1>10. FetchesAreAsked'
  BY <1>1, <1>4, <1>5, <1>9 DEF NewsInv, FetchesAreAsked
<1>11. LoadsHaveFetches'
  <2> SUFFICES ASSUME NEW m \in PageLoads
               PROVE  /\ loads'[m].at = "idle" => loads'[m] = NotAsked
                      /\ loads'[m].at = "missed" => loads'[m].of \in Remotes /\ loads'[m].fetch = 0
                      /\ loads'[m].fetch # 0 => loads'[m].fetch \in DOMAIN fetches'
                      /\ loads'[m].at \in {"starting", "waiting", "reading"} =>
                           loads'[m].fetch # 0 /\ loads'[m].of = fetches'[loads'[m].fetch].of
                      /\ loads'[m].at = "reading" /\ ~loads'[m].late =>
                           fetches'[loads'[m].fetch].at = "done"
    BY DEF LoadsHaveFetches
  <2>1. CASE m = l
    BY <1>2, <1>4, <1>5, <1>6, <2>1
  <2>2. CASE m # l
    BY <1>5, <1>6, <1>9, <2>2 DEF NewsInv, LoadsHaveFetches
  <2> QED
    BY <2>1, <2>2
<1>12. OneStarts'
  <2>1. \A m \in PageLoads : m # l /\ loads[m].at = "starting" =>
          loads[m].fetch # f /\ loads[m].fetch \in DOMAIN fetches
    BY <1>1 DEF NewsInv, OneStarts, LoadsHaveFetches, f
  <2>2. loads'[l].at # "starting"
    BY <1>4, <1>6
  <2> QED
    BY <1>6, <1>9, <2>1, <2>2 DEF NewsInv, OneStarts
<1>13. ShownIsCurrent'
  <2>1. \A m \in PageLoads : loads[m].fetch # 0 => loads[m].fetch \in DOMAIN fetches
    BY DEF NewsInv, LoadsHaveFetches
  <2>2. ~(loads'[l].at = "served" /\ loads'[l].got.known)
    BY <1>4, <1>6
  <2> QED
    BY <1>6, <1>9, <2>1, <2>2 DEF NewsInv, ShownIsCurrent
<1>14. NothingOlder'
  BY <1>1, <1>4, <1>5 DEF NewsInv, NothingOlder
<1>15. KeptIsCurrent'
  BY <1>1 DEF NewsInv, KeptIsCurrent
<1> QED
  BY <1>7, <1>8, <1>10, <1>11, <1>12, <1>13, <1>14, <1>15 DEF NewsInv

LEMMA NewsSteps ==
  ASSUME NewsInv, [NewsNext]_newsVars
  PROVE  NewsInv'
<1>1. CASE \E l \in PageLoads : LoadSteps(l)
  BY <1>1, AskedSteps, ReadSteps, JoinSteps, StartSteps DEF LoadSteps
<1>2. CASE \E f \in DOMAIN fetches : FetchSteps(f)
  BY <1>2, SourceSteps, LandSteps, ClearSteps DEF FetchSteps
<1>3. CASE ForgetsNews
  <2>1. /\ kept' = [u \in Remotes |-> NoNews] /\ flight' = [u \in Remotes |-> 0]
        /\ newsGen' = newsGen + 1 /\ UNCHANGED <<wired, bulletin, fetches, loads, tick>>
    BY <1>3 DEF ForgetsNews
  <2>2. \A f \in DOMAIN fetches : /\ fetches[f].gen <= newsGen /\ fetches[f].gen \in Nat
                                  /\ newsGen \in Nat /\ fetches[f].of \in Remotes
    BY FetchTyped DEF NewsInv, FetchesAreAsked, FetchRecords, NewsTyped
  <2>3. NewsTyped'
    BY <2>1, NothingKept DEF NewsInv, NewsTyped
  <2>4. FetchesAreAsked' /\ OneFetch' /\ FlightIsAFetch'
    BY <2>1, <2>2 DEF NewsInv, FetchesAreAsked, OneFetch, FlightIsAFetch, SameGen
  <2>5. LoadsHaveFetches' /\ OneStarts' /\ ShownIsCurrent'
    BY <2>1 DEF NewsInv, LoadsHaveFetches, OneStarts, ShownIsCurrent
  <2>6. NothingOlder' /\ KeptIsCurrent'
    BY <2>1, <2>2, NothingKept DEF NothingOlder, KeptIsCurrent
  <2> QED
    BY <2>3, <2>4, <2>5, <2>6 DEF NewsInv
<1>4. CASE NewsWorld
  <2>1. UNCHANGED <<kept, flight, newsGen, fetches, loads, tick>>
    BY <1>4 DEF NewsWorld
  <2>2. wired' \in Remotes \cup {NoRemote} /\ bulletin' \in [Remotes -> Bulletins]
    BY <1>4 DEF NewsWorld, NewsInv, NewsTyped
  <2> QED
    BY <2>1, <2>2 DEF NewsInv, NewsTyped, FetchesAreAsked, FlightIsAFetch, LoadsHaveFetches,
                      OneStarts, NothingOlder, OneFetch, SameGen, KeptIsCurrent, ShownIsCurrent
<1>5. CASE TimePasses
  <2>1. UNCHANGED <<wired, bulletin, kept, flight, newsGen, fetches, loads>> /\ tick' = tick + 1
    BY <1>5 DEF TimePasses
  <2>2. \A f \in DOMAIN fetches : fetches[f].since \in Nat
    BY FetchTyped DEF NewsInv, FetchRecords
  <2>3. NewsTyped' /\ FetchesAreAsked'
    BY <2>1, <2>2 DEF NewsInv, NewsTyped, FetchesAreAsked
  <2> QED
    BY <2>1, <2>3 DEF NewsInv, FlightIsAFetch, LoadsHaveFetches,
                      OneStarts, NothingOlder, OneFetch, SameGen, KeptIsCurrent, ShownIsCurrent
<1>6. CASE UNCHANGED newsVars
  BY <1>6 DEF newsVars, NewsInv, NewsTyped, FetchesAreAsked, FlightIsAFetch, LoadsHaveFetches,
              OneStarts, NothingOlder, OneFetch, SameGen, KeptIsCurrent, ShownIsCurrent
<1> QED
  BY <1>1, <1>2, <1>3, <1>4, <1>5, <1>6 DEF NewsNext

(***************************************************************************)
(* However page loads, fetches that are slow or end with a fault, resets   *)
(* and changes of the settings overlap: one fetch of a remote is under way,*)
(* and no page shows a banner of another remote, or one older than the     *)
(* fetch it has waited for.                                                *)
(***************************************************************************)
THEOREM NewsStaysCurrent == NewsSpec => []NewsIsCurrent
<1>1. NewsInit => NewsInv
  BY NewsStarts
<1>2. NewsInv /\ [NewsNext]_newsVars => NewsInv'
  BY NewsSteps
<1>3. NewsInv => NewsIsCurrent
  BY DEF NewsInv, NewsIsCurrent, BannersAreCurrent, KeptIsCurrent, ShownIsCurrent
<1> QED
  BY <1>1, <1>2, <1>3, PTL DEF NewsSpec

-----------------------------------------------------------------------------
(***************************************************************************)
(* The scoreboard.  The runs that count are exactly those that ended by    *)
(* themselves and were judged, and the numbers are of nothing else.        *)
(***************************************************************************)
ScoreTyped ==
  /\ finished \in [DOMAIN finished -> Triggers] /\ DOMAIN finished \subseteq Attempts
  /\ grades \in [DOMAIN grades -> [judge : Judges, overall : Nat]]
  /\ \A r \in DOMAIN grades : r \in DOMAIN finished /\ finished[r] \notin {"cancelled", "deploy_failed"}

LEMMA ScoreStarts == ScoreInit => ScoreTyped
BY DEF ScoreInit, ScoreTyped

LEMMA ScoreStep == ScoreTyped /\ [ScoreNext]_scoreVars => ScoreTyped'
<1> SUFFICES ASSUME ScoreTyped, [ScoreNext]_scoreVars  PROVE ScoreTyped'
  OBVIOUS
<1>1. ASSUME NEW r \in Attempts, RunFinishes(r)  PROVE ScoreTyped'
  <2>1. PICK t \in Triggers : finished' = With(finished, r, t)
    BY <1>1 DEF RunFinishes
  <2> QED  BY <1>1, <2>1 DEF RunFinishes, ScoreTyped, With
<1>2. ASSUME NEW r \in Attempts, GradeIsStored(r)  PROVE ScoreTyped'
  <2>1. PICK j \in Judges, o \in Marks :
          grades' = With(grades, r, [judge |-> j, overall |-> IF j = "crashed" THEN 0 ELSE o])
    BY <1>2 DEF GradeIsStored
  <2>2. [judge |-> j, overall |-> IF j = "crashed" THEN 0 ELSE o] \in [judge : Judges, overall : Nat]
    BY ScoreboardAssumption
  <2>3. finished' = finished /\ r \in DOMAIN finished /\ finished[r] \notin {"cancelled", "deploy_failed"}
    BY <1>2 DEF GradeIsStored
  <2> DEFINE g == [judge |-> j, overall |-> IF j = "crashed" THEN 0 ELSE o]
  <2> HIDE DEF g
  <2>4. grades' = With(grades, r, g) /\ g \in [judge : Judges, overall : Nat]
    BY <2>1, <2>2 DEF g
  <2> QED  BY <2>3, <2>4 DEF ScoreTyped, With
<1>3. CASE UNCHANGED scoreVars
  BY <1>3 DEF scoreVars, ScoreTyped
<1> QED  BY <1>1, <1>2, <1>3 DEF ScoreNext

\* The runs that count are the genuine ones.
LEMMA GenuineCount == ScoreTyped => Counting = {r \in Attempts : Genuine(r)}
<1> SUFFICES ASSUME ScoreTyped  PROVE Counting = {r \in Attempts : Genuine(r)}
  OBVIOUS
<1>1. ASSUME NEW r \in DOMAIN finished, r \in DOMAIN grades
      PROVE  Genuine(r) <=> Bucket(r) = "scored" /\ finished[r] # "cancelled"
  <2>1. /\ finished[r] \in {"done", "timeout", "operator"} /\ grades[r].judge \in Judges
    BY <1>1 DEF ScoreTyped, Triggers
  <2> QED  BY <1>1, <2>1 DEF Genuine, Bucket, Judges
<1>2. ASSUME NEW r \in DOMAIN finished, r \notin DOMAIN grades
      PROVE  ~Genuine(r) /\ Bucket(r) # "scored"
  BY <1>2 DEF Genuine, Bucket
<1>3. \A r : Genuine(r) => r \in DOMAIN finished
  BY DEF Genuine
<1> QED  BY <1>1, <1>2, <1>3 DEF Counting, Rows, ScoreTyped

LEMMA SameSummary ==
  ASSUME Counting' = Counting, \A r \in Counting : grades'[r] = grades[r]
  PROVE  Summary' = Summary
<1>1. \A o : Below(o)' = Below(o)
  <2> TAKE o
  <2>1. {r \in Counting : grades[r].overall < o}' = {r \in Counting : grades[r].overall < o}
    OBVIOUS
  <2> QED  BY <2>1 DEF Below
<1>2. \A o, i : Position(o, i)' <=> Position(o, i)
  <2> TAKE o, i
  <2>1. {r \in Counting : grades[r].overall <= o}' = {r \in Counting : grades[r].overall <= o}
    OBVIOUS
  <2> QED  BY <1>1, <2>1 DEF Position
<1>3. \A i : Nth(i)' = Nth(i)
  BY <1>2 DEF Nth
<1>4. Median2' = Median2 /\ \A q : Quartile4(q)' = Quartile4(q)
  BY <1>3 DEF Median2, Quartile4
<1> QED  BY <1>4 DEF Summary

\* A run nobody judged, one an operator stopped, one whose grading crashed and one
\* that never got an environment change neither the median nor the quartiles of the
\* agent's scores, whenever they end and whatever is recorded of them
\* (reporting/scores.py).
THEOREM OnlyScoresMoveTheBoard == ScoreSpec => OnlyScoresCount
<1>1. ASSUME ScoreTyped, [ScoreNext]_scoreVars,
             \A r \in Attempts : Genuine(r) <=> Genuine(r)',
             \A r \in Attempts : Genuine(r) => grades'[r] = grades[r]
      PROVE  Summary' = Summary
  <2>1. Counting = {r \in Attempts : Genuine(r)}
    BY <1>1, GenuineCount
  <2>2. ScoreTyped'
    BY <1>1, ScoreStep
  <2>3. (Counting = {r \in Attempts : Genuine(r)})'
    BY <2>2, GenuineCount, PTL
  <2>4. Counting' = Counting
    BY <1>1, <2>1, <2>3
  <2>5. \A r \in Counting : grades'[r] = grades[r]
    BY <1>1, <2>1
  <2> QED  BY <2>4, <2>5, SameSummary
<1> QED  BY <1>1, ScoreStarts, ScoreStep, PTL DEF ScoreSpec, OnlyScoresCount
=============================================================================
