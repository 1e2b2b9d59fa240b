---------------------- MODULE CredentialProviderProofs ----------------------
(***************************************************************************)
(* The credential provider, for any processes and overlapping calls, any   *)
(* client ids, any number of generations, families and faults. Base says   *)
(* that the call inside the section has the store and its family to        *)
(* itself; on it rest the debt (what the server did and the store does not *)
(* know), the verdicts, the order of the tokens, the prompt retry and the  *)
(* events.                                                                 *)
(***************************************************************************)
EXTENDS CredentialProvider, SequenceTheorems, TLAPS

\* A token that the server has minted.
Issued(t) ==
    t # NoToken => t.family \in DOMAIN rows /\ t.gen <= Row(t).head

\* The head of its family.
Newest(t) == t.gen = Row(t).head

\* t was obtained no later than u.
Upto(t, u) ==
    \/ t.family < u.family
    \/ t.family = u.family /\ t.gen <= u.gen

\* A call inside the section has it to itself, and the store with it: what it
\* presents is what the store holds.
Sound(c) ==
    /\ pc[c] \in Inside => holder = c /\ tok[c] = store.tok
    /\ pc[c] \in Inside \cup {"recheck", "sleep"} =>
            tok[c] # NoToken /\ ids[c] # <<>>
    /\ pc[c] # "done" => out[c] = NoOutcome
    /\ InFlight(c) => tok[c].gen + 1 = Row(tok[c]).head
    /\ pc[c] = "sleep" => attempt[c] = 1

\* Writes that fail because the store is unreadable: one for each spoiling.
LossesBounded ==
    /\ losses <= faults
    /\ (~readable /\ \E c \in Calls : pc[c] \in Inside) => losses < faults

\* The invariant that the others build on.
Base ==
    /\ TypeOK
    /\ Issued(store.tok)
    /\ \A c \in Calls : Sound(c)
    /\ LossesBounded

-----------------------------------------------------------------------------
(* The types.                                                              *)

\* A sequence with an element taken out.
LEMMA RemoveAtType ==
  ASSUME NEW S, NEW s \in Seq(S), NEW i \in 1 .. Len(s)
  PROVE  RemoveAt(s, i) \in Seq(S)
<1>1. SubSeq(s, 1, i - 1) \in Seq(S) /\ SubSeq(s, i + 1, Len(s)) \in Seq(S)
  OBVIOUS
<1> QED
  BY <1>1 DEF RemoveAt

\* The ids a call is given are clients.
LEMMA GivenIdsType ==
  /\ \A c \in Calls : /\ DefaultOf[ProcOf[c]] \in Clients
                      /\ FallbackOf[ProcOf[c]] \in Seq(Clients)
  /\ NoClient \notin Clients
  BY ProviderAssumption DEF Procs

\* There is always an id to present.
LEMMA KnownIdsType ==
  ASSUME TypeOK, NEW c \in Calls
  PROVE  KnownIds(c) \in Seq(Clients) /\ KnownIds(c) # <<>>
  BY GivenIdsType DEF KnownIds, TypeOK, Records

\* The ids to present are known ones, at least one.
LEMMA CandidatesKnown ==
  ASSUME NEW c \in Calls, NEW S, KnownIds(c) \in Seq(S), KnownIds(c) # <<>>
  PROVE  Candidates(c) \in Seq(S) /\ Candidates(c) # <<>>
<1> DEFINE known == KnownIds(c)
           first == pending[ProcOf[c]].client
           places == {i \in DOMAIN known : known[i] = first}
           i == CHOOSE j \in places : TRUE
<1>1. CASE pending[ProcOf[c]].tok = store.tok /\ places # {}
  <2>1. i \in 1 .. Len(known) /\ first \in S
    BY <1>1
  <2> HIDE DEF i, first
  <2>2. RemoveAt(known, i) \in Seq(S)
    BY <2>1, RemoveAtType
  <2>4. <<first>> \in Seq(S) /\ <<first>> # <<>>
    BY <2>1
  <2>5. <<first>> \o RemoveAt(known, i) \in Seq(S)
    BY <2>2, <2>4, ConcatProperties
  <2>6. <<first>> \o RemoveAt(known, i) # <<>>
    BY <2>2, <2>4, ConcatSimplifications
  <2>3. Candidates(c) = <<first>> \o RemoveAt(known, i)
    BY <1>1 DEF Candidates, i, first
  <2> QED
    BY <2>3, <2>5, <2>6
<1>2. CASE ~ (pending[ProcOf[c]].tok = store.tok /\ places # {})
  BY <1>2 DEF Candidates
<1> QED
  BY <1>1, <1>2

\* The ids to present are clients, at least one.
LEMMA CandidatesType ==
  ASSUME TypeOK, NEW c \in Calls
  PROVE  Candidates(c) \in Seq(Clients) /\ Candidates(c) # <<>>
  BY KnownIdsType, CandidatesKnown

\* The empty values are of their types, and no call is a process.
LEMMA Types ==
  /\ NoToken \in AnyToken /\ NoRecord \in Records
  /\ NoOutcome \in [kind : Outcomes, tok : AnyToken]
  /\ \A c \in Calls : ProcOf[c] \in Procs
  /\ NoCall # DeadCall /\ {NoCall, DeadCall} \cap (Calls \cup Procs) = {}
  /\ Calls \cap Procs = {}
  BY ProviderAssumption DEF AnyToken, NoRecord, Records, NoOutcome, Outcomes,
     Procs

\* The bounds are numbers.
LEMMA Bounds == MaxGen \in Nat /\ MaxFaults \in Nat /\ MaxFamilies \in Nat
  BY ProviderAssumption

\* The row of a family.
LEMMA RowsType ==
  ASSUME NEW s \in Seq(FamilyRows), NEW i \in DOMAIN s
  PROVE  s[i] \in FamilyRows /\ s[i].head \in Nat
<1>1. s[i] \in FamilyRows
  OBVIOUS
<1> QED
  BY <1>1, Bounds DEF FamilyRows

\* A token that is there.
LEMMA TokenType ==
  ASSUME NEW t \in AnyToken, t # NoToken
  PROVE  t \in Tokens /\ t.gen \in Nat /\ t.family \in Families
  BY Bounds DEF Tokens, AnyToken

\* A call that ends keeps the types.
LEMMA EndsType ==
  ASSUME TypeOK, NEW c \in Calls, NEW kind \in Outcomes, NEW t \in AnyToken,
         Ends(c, kind, t)
  PROVE  /\ pc' \in [Calls -> Pcs] /\ mode' \in [Calls -> Modes]
         /\ snap' \in [Calls -> AnyToken] /\ tok' \in [Calls -> AnyToken]
         /\ ids' \in [Calls -> Seq(Clients)]
         /\ reply' \in [Calls -> Replies] /\ attempt' \in [Calls -> {1, 2}]
         /\ out' \in [Calls -> [kind : Outcomes, tok : AnyToken]]
         /\ lost' \in Calls \cup {NoCall}
<1>1. Outcome(mode[c], kind, t) \in [kind : Outcomes, tok : AnyToken]
  BY Types DEF Outcome, Outcomes
<1> QED
  BY <1>1, Types DEF Ends, TypeOK, Pcs, Replies, Modes

\* What a verdict says of the row and of the generation presented.
LEMMA VerdictType ==
  ASSUME NEW row \in FamilyRows, NEW gen \in Nat, NEW c
  PROVE  /\ Verdict(row, gen, c) \in Verdicts
         /\ Verdict(row, gen, c) = "rotate" => gen = row.head
         /\ Verdict(row, gen, c) = "mismatch" => gen = row.head
         /\ Verdict(row, gen, c) = "replay" => gen + 1 = row.head
         /\ Verdict(row, gen, c) = "reuse" => gen # row.head
         /\ Verdict(row, gen, c) = "invalid" => ~row.alive
  BY DEF Verdict, Verdicts, FamilyRows

\* A verdict moves the head by a rotation only, and revives nothing.
LEMMA AppliedType ==
  ASSUME NEW row \in FamilyRows, NEW verdict \in Verdicts,
         verdict = "rotate" => row.head < MaxGen
  PROVE  /\ Applied(row, verdict) \in FamilyRows
         /\ Applied(row, verdict).client = row.client
         /\ Applied(row, verdict).head = IF verdict = "rotate" THEN row.head + 1 ELSE row.head
         /\ Applied(row, verdict).alive => row.alive
<1>1. CASE verdict = "rotate"
  <2>1. Applied(row, verdict) = [row EXCEPT !.head = row.head + 1, !.grace = TRUE]
    BY <1>1 DEF Applied
  <2>2. row.head + 1 \in 0 .. MaxGen
    BY <1>1, Bounds DEF FamilyRows
  <2> QED
  BY <1>1, <2>1, <2>2 DEF FamilyRows
<1>2. CASE verdict = "reuse"
  BY <1>2 DEF Applied, FamilyRows
<1>3. CASE verdict \notin {"rotate", "reuse"}
  BY <1>3 DEF Applied
<1> QED
  BY <1>1, <1>2, <1>3

\* A call that begins ends at once only with a failure.
LEMMA CallFails ==
  ASSUME NEW c \in Calls, NEW m, Call(c, m)
  PROVE  \/ out' = out
         \/ \E kind \in Outcomes \ {"served"} :
               out' = [out EXCEPT ![c] = Outcome(m, kind, NoToken)]
<1> DEFINE isDead == dead'[ProcOf[c]] = store.tok
           r == rate[ProcOf[c]]
           kind == CASE isDead -> "dead"
                     [] ~isDead /\ r = "held" -> "failed"
                     [] ~isDead /\ r = "cooling" -> "transient"
                     [] OTHER -> "threw"
<1>1. kind \in Outcomes \ {"served"}
  BY DEF Outcomes
<1>2. out' = out \/ out' = [out EXCEPT ![c] = Outcome(m, kind, NoToken)]
  BY DEF Call
<1> QED
  BY <1>1, <1>2

\* A call that begins keeps the types.
LEMMA TypeCall ==
  ASSUME Base, NEW c \in Calls, NEW m \in ModesOf[c], Call(c, m)
  PROVE TypeOK'
<1> USE DEF disk, memory, call, server, history
<1>1. m \in Modes /\ store.tok \in AnyToken /\ ProcOf[c] \in Procs
  BY ProviderAssumption, Types DEF Base, TypeOK, Records
<1>2. mode' \in [Calls -> Modes] /\ dead' \in [Procs -> AnyToken]
  BY <1>1, Types DEF Base, TypeOK, Call
<1>3. pc' \in [Calls -> Pcs] /\ snap' \in [Calls -> AnyToken]
  BY <1>1 DEF Base, TypeOK, Call, Pcs
<1>4. out' \in [Calls -> [kind : Outcomes, tok : AnyToken]]
  <2>1. ASSUME NEW kind \in Outcomes
        PROVE  Outcome(m, kind, NoToken) \in [kind : Outcomes, tok : AnyToken]
    BY Types DEF Outcome, Outcomes
  <2>2. ASSUME NEW kind \in Outcomes,
               out' = [out EXCEPT ![c] = Outcome(m, kind, NoToken)]
        PROVE  out' \in [Calls -> [kind : Outcomes, tok : AnyToken]]
    BY <2>1, <2>2 DEF Base, TypeOK
  <2>3. CASE out' = out
    BY <2>3 DEF Base, TypeOK
  <2> QED
    BY <2>2, <2>3, CallFails
<1> QED
  BY <1>2, <1>3, <1>4 DEF Base, TypeOK, Call

\* The generation that the answer carried is one of the server's.
LEMMA RotatedType ==
  ASSUME TypeOK, NEW c \in Calls, Sound(c), Issued(store.tok), InFlight(c)
  PROVE  Rotated(c) \in Tokens
<1>0. tok[c] = store.tok /\ tok[c] # NoToken
  BY DEF InFlight, Sound, Inside
<1>1. tok[c] \in Tokens /\ tok[c].family \in DOMAIN rows /\ tok[c].gen \in Nat
  BY <1>0, TokenType DEF Issued, TypeOK
<1>2. rows[tok[c].family] \in FamilyRows
  BY <1>1, RowsType DEF TypeOK
<1>3. tok[c].gen + 1 \in 0 .. MaxGen
  BY <1>1, <1>2, Bounds DEF Sound, Row, FamilyRows
<1> QED
  BY <1>1, <1>3 DEF Rotated, Tokens

\* Each step of a refresh keeps the types.
LEMMA TypeRefresh ==
  ASSUME Base, NEW c \in Calls, Refresh(c)
  PROVE TypeOK'
<1> USE DEF disk, memory, call, server, history
<1>0. TypeOK /\ Sound(c) /\ LossesBounded /\ Issued(store.tok) BY DEF Base
<1>1. CASE EnterAndAdopt(c)
  <2>1. "served" \in Outcomes /\ store.tok \in AnyToken
    BY <1>0 DEF TypeOK, Records, Outcomes
  <2> QED BY <1>0, <1>1, <2>1, EndsType DEF EnterAndAdopt, TypeOK
<1>2. CASE EnterInVain(c)
  <2>1. {"unreadable", "failed"} \subseteq Outcomes /\ NoToken \in AnyToken
    BY Types DEF Outcomes
  <2> QED BY <1>0, <1>2, <2>1, EndsType DEF EnterInVain, TypeOK
<1>3. CASE EnterToRefresh(c)
  BY <1>0, <1>3, CandidatesType, Types DEF EnterToRefresh, TypeOK, Pcs,
     Inside, Records
<1>4. CASE Present(c)
  <2> DEFINE f == tok[c].family
             verdict == Verdict(rows[f], tok[c].gen, Head(ids[c]))
  <2>0. tok[c] # NoToken /\ tok[c] \in AnyToken
    BY <1>0, <1>4 DEF Sound, Present, Goto, Inside, TypeOK
  <2>1. tok[c] \in Tokens /\ f \in DOMAIN rows /\ f \in Families
    <3>1. tok[c] # NoToken /\ tok[c] = store.tok
      BY <1>0, <1>4 DEF Sound, Present, Goto, Inside
    <3> QED
      BY <1>0, <3>1, TokenType DEF TypeOK, Issued
  <2>2. verdict \in Verdicts /\ rows[f] \in FamilyRows /\ tok[c].gen \in Nat
    <3>1. rows[f] \in FamilyRows /\ tok[c].gen \in Nat
      BY <1>0, <2>1, <2>0, RowsType, TokenType DEF TypeOK
    <3> QED
      BY <3>1, VerdictType
  <2>3. Applied(rows[f], verdict) \in FamilyRows
    BY <1>4, <2>2, AppliedType DEF Present
  <2>4. rows' = [rows EXCEPT ![f] = Applied(rows[f], verdict)]
    BY <1>4 DEF Present
  <2>5. rows' \in Seq(FamilyRows)
    <3> HIDE DEF f, verdict
    <3>1. rows \in Seq(FamilyRows)
      BY <1>0 DEF TypeOK
    <3>2. DEFINE e == Applied(rows[f], verdict)
    <3>3. e \in FamilyRows /\ rows' = [rows EXCEPT ![f] = e]
      BY <2>3, <2>4
    <3>4. \A i \in DOMAIN rows, x \in FamilyRows : [rows EXCEPT ![i] = x] \in Seq(FamilyRows)
      BY <3>1
    <3> HIDE DEF e
    <3> QED
      BY <2>1, <3>3, <3>4
  <2>6. /\ reply' = [reply EXCEPT ![c] = verdict]
        /\ hits' = IF verdict = "replay" THEN hits + 1 ELSE hits
        /\ revoked' = IF verdict = "reuse" THEN revoked \cup {f} ELSE revoked
    BY <1>4 DEF Present
  <2> HIDE DEF verdict, f
  <2>7. hits' \in Nat /\ revoked' \subseteq Families
    BY <1>0, <2>1, <2>6 DEF TypeOK
  <2>8. reply' \in [Calls -> Replies] /\ pc' \in [Calls -> Pcs]
    BY <1>0, <1>4, <2>2, <2>6 DEF Present, Goto, TypeOK, Pcs, Inside, Replies
  <2> QED
    BY <1>0, <1>4, <2>5, <2>7, <2>8 DEF Present, TypeOK
<1>5. CASE TryNextId(c)
  <2>1. Tail(ids[c]) \in Seq(Clients)
    BY <1>0, <1>5, HeadTailProperties DEF TryNextId, TypeOK, Goto, Inside,
       Sound
  <2> QED
  BY <1>0, <1>5, <2>1 DEF TryNextId, Goto, TypeOK, Pcs, Inside, Replies
<1>6. CASE Refused(c)
  BY <1>0, <1>6, EndsType, Types DEF Refused, TypeOK, Outcomes, Forget, Leaves
<1>7. CASE Transient(c)
  <2>1. [tok |-> tok[c], client |-> Head(ids[c])] \in Records
    BY <1>0, <1>7, HeadTailProperties DEF Transient, TypeOK, Records, Sound,
       Inside
  <2>2. /\ pending' \in [Procs -> Records]
        /\ rate' \in [Procs -> {"none", "held", "cooling"}]
        /\ holder' \in Calls \cup Procs \cup {NoCall, DeadCall}
    BY <1>0, <1>7, <2>1, Types DEF Transient, TypeOK, Leaves
  <2>3. CASE Ends(c, "transient", NoToken)
    BY <1>0, <1>7, <2>2, <2>3, EndsType, Types DEF Transient, TypeOK, Outcomes
  <2>4. CASE ~Ends(c, "transient", NoToken)
    BY <1>0, <1>7, <2>2, <2>4 DEF Transient, TypeOK, Pcs
  <2> QED
    BY <2>3, <2>4
<1>8. CASE Condemned(c)
  BY <1>0, <1>8, Types DEF Condemned, TypeOK, Forget, Leaves, Goto, Pcs
<1>9. CASE Accept(c)
  BY <1>0, <1>9, Types DEF Accept, TypeOK, Forget, Leaves, Goto, Pcs, Inside
<1>10. CASE WriteRotation(c)
  <2>1. Rotated(c) \in Tokens /\ StampedClient(c) \in Clients \cup {NoClient}
    BY <1>0, <1>10, RotatedType, HeadTailProperties DEF WriteRotation,
       StampedClient, InFlight, Inside, Sound, TypeOK
  <2> QED
  BY <1>0, <1>10, <2>1, EndsType, Types DEF WriteRotation, TypeOK, Leaves,
     Records, AnyToken, Outcomes
<1>11. CASE WriteFails(c)
  <2>1. Rotated(c) \in AnyToken
    BY <1>0, <1>11, RotatedType DEF WriteFails, InFlight, AnyToken
  <2>2. faults' \in 0 .. MaxFaults /\ losses' \in 0 .. MaxFaults
    BY <1>0, <1>11, ProviderAssumption DEF WriteFails, TypeOK, Disturb,
       LossesBounded, Inside
  <2> QED
  BY <1>0, <1>11, <2>1, <2>2, EndsType, Types DEF WriteFails, TypeOK, Leaves,
     Outcomes
<1>12. CASE RecheckAdopts(c)
  <2>1. "served" \in Outcomes /\ store.tok \in AnyToken
    BY <1>0 DEF TypeOK, Records, Outcomes
  <2> QED BY <1>0, <1>12, <2>1, EndsType DEF RecheckAdopts, TypeOK
<1>13. CASE RecheckCondemns(c)
  <2>1. tok[c] \in Tokens
    BY <1>0, <1>13 DEF RecheckCondemns, Sound, TypeOK, AnyToken
  <2>0. tok[c] \in AnyToken /\ dead \in [Procs -> AnyToken] /\ memo \in AnyToken
        /\ events \in [Procs -> [Families -> Nat]]
    BY <1>0 DEF TypeOK
  <2>2. dead' \in [Procs -> AnyToken] /\ memo' \in AnyToken
    BY <2>0, <1>13 DEF RecheckCondemns
  <2>3. events' \in [Procs -> [Families -> Nat]]
    <3>1. tok[c].family \in Families /\ ProcOf[c] \in Procs
      BY <2>1, Types DEF Tokens
    <3>2. /\ events[ProcOf[c]] \in [Families -> Nat]
          /\ events[ProcOf[c]][tok[c].family] + 1 \in Nat
      BY <2>0, <3>1
    <3>3. [events EXCEPT ![ProcOf[c]][tok[c].family] = @ + 1] \in [Procs -> [Families -> Nat]]
      BY <2>0, <3>1, <3>2
    <3> QED
      BY <1>13, <2>0, <3>3 DEF RecheckCondemns
  <2>4. "dead" \in Outcomes /\ NoToken \in AnyToken
    BY Types DEF Outcomes
  <2> QED
    BY <1>0, <1>13, <2>2, <2>3, <2>4, EndsType DEF RecheckCondemns, TypeOK
<1>14. CASE Retry(c)
  <2>1. faults' \in 0 .. MaxFaults
    BY <1>0, <1>14, ProviderAssumption DEF Retry, TypeOK, Disturb
  <2>2. CASE Ends(c, "threw", NoToken) \/ Ends(c, "transient", NoToken)
    BY <1>0, <1>14, <2>1, <2>2, EndsType, Types DEF Retry, TypeOK, Outcomes
  <2>3. CASE ~(Ends(c, "threw", NoToken) \/ Ends(c, "transient", NoToken))
    <3>0. /\ pc' = [pc EXCEPT ![c] = "waitLock"]
          /\ reply' = [reply EXCEPT ![c] = "none"]
          /\ attempt' = [attempt EXCEPT ![c] = attempt[c] + 1]
          /\ UNCHANGED <<mode, snap, tok, ids, out, lost>>
      BY <1>14, <2>3 DEF Retry
    <3>1. attempt[c] + 1 = 2
      BY <1>0, <1>14 DEF Sound, Retry
    <3> QED
      BY <1>0, <1>14, <2>1, <3>0, <3>1 DEF Retry, TypeOK, Pcs, Replies
  <2> QED
    BY <2>2, <2>3
<1>15. CASE Busy(c)
  BY <1>0, <1>15, EndsType, Types DEF Busy, TypeOK, Outcomes
<1>16. CASE Return(c)
  BY <1>0, <1>16, Types DEF Return, Goto, TypeOK, Pcs, Modes
<1> QED
 BY <1>1, <1>2, <1>3, <1>4, <1>5, <1>6, <1>7, <1>8, <1>9, <1>10, <1>11, <1>12,
    <1>13, <1>14, <1>15, <1>16 DEF Refresh

\* A request or an answer that is lost keeps the types.
LEMMA TypeAnswer ==
  ASSUME Base, NEW c \in Calls, PresentFails(c) \/ Lose(c) \/ Cancel(c)
  PROVE  TypeOK'
<1> USE DEF disk, memory, call, server, history
<1>0. TypeOK /\ LossesBounded
  BY DEF Base
<1>1. CASE PresentFails(c)
  <2>1. faults' \in 0 .. MaxFaults
    BY <1>0, <1>1, Bounds DEF PresentFails, TypeOK, Disturb
  <2> QED
    BY <1>0, <1>1, <2>1 DEF PresentFails, TypeOK, Goto, Pcs, Inside, Replies
<1>2. CASE Lose(c)
  <2>1. faults' \in 0 .. MaxFaults /\ losses' \in 0 .. MaxFaults
    BY <1>0, <1>2, Bounds DEF Lose, TypeOK, Disturb, LossesBounded
  <2> QED
    BY <1>0, <1>2, <2>1 DEF Lose, TypeOK, Replies
<1>3. CASE Cancel(c)
  <2>1. faults' \in 0 .. MaxFaults /\ losses' \in 0 .. MaxFaults
    BY <1>0, <1>3, Bounds DEF Cancel, TypeOK, Disturb, LossesBounded
  <2> QED
    BY <1>0, <1>3, <2>1 DEF Cancel, TypeOK, Pcs, Inside, Replies
<1> QED
  BY <1>1, <1>2, <1>3

\* A crash keeps the types.
LEMMA TypeCrash ==
  ASSUME Base, NEW p \in Procs, Crash(p)
  PROVE  TypeOK'
<1> USE DEF disk, server
<1>0. TypeOK /\ LossesBounded
  BY DEF Base
<1>1. faults' \in 0 .. MaxFaults /\ losses' \in 0 .. MaxFaults
  BY <1>0, Bounds DEF Crash, TypeOK, Disturb, LossesBounded
<1>2. /\ holder' \in Calls \cup Procs \cup {NoCall, DeadCall}
      /\ lost' \in Calls \cup {NoCall}
  BY <1>0 DEF Crash, TypeOK
<1>3. /\ pc' \in [Calls -> Pcs] /\ mode' \in [Calls -> Modes]
      /\ snap' \in [Calls -> AnyToken] /\ tok' \in [Calls -> AnyToken]
      /\ ids' \in [Calls -> Seq(Clients)]
      /\ reply' \in [Calls -> Replies] /\ attempt' \in [Calls -> {1, 2}]
      /\ out' \in [Calls -> [kind : Outcomes, tok : AnyToken]]
  BY <1>0, Types DEF Crash, TypeOK, Pcs, Modes, Replies
<1>4. /\ dead' \in [Procs -> AnyToken]
      /\ rate' \in [Procs -> {"none", "held", "cooling"}]
      /\ pending' \in [Procs -> Records]
      /\ events' \in [Procs -> [Families -> Nat]]
  BY <1>0, Types DEF Crash, TypeOK
<1> QED
  BY <1>0, <1>1, <1>2, <1>3, <1>4 DEF Crash, TypeOK

\* The steps of the world around the calls, a crash apart.
World ==
    \/ TakeOver \/ SignOut \/ StoreSpoils \/ StoreHeals \/ OtherVerdict
    \/ \E f \in DOMAIN rows : GraceEnds(f) \/ FamilyDies(f)
    \/ \E p \in Procs : CoolsDown(p) \/ SiblingEnters(p) \/ SiblingLeaves(p)
    \/ \E client \in Clients : Login(client)

\* What the grace window and the death of a family change of its row.
LEMMA RowUpdates ==
  ASSUME NEW row \in FamilyRows, NEW new,
         \/ new = [row EXCEPT !.grace = FALSE]
         \/ new = [row EXCEPT !.alive = FALSE, !.grace = FALSE]
  PROVE  /\ new \in FamilyRows /\ ~new.grace
         /\ new.client = row.client /\ new.head = row.head
         /\ new.alive => row.alive
  BY DEF FamilyRows

\* A family as it is minted.
LEMMA MintedType ==
  ASSUME NEW client \in Clients
  PROVE  Minted(client) \in FamilyRows
  BY Bounds DEF Minted, FamilyRows

\* The environment interferes at most MaxFaults times.
LEMMA DisturbType ==
  ASSUME TypeOK, NEW kind, Disturb(kind)
  PROVE  faults' \in 0 .. MaxFaults
  BY Bounds DEF TypeOK, Disturb

\* The world around the calls keeps the types.
LEMMA TypeWorld ==
  ASSUME Base, World
  PROVE  TypeOK'
<1> USE DEF disk, memory, call, server, history
<1>0. TypeOK
  BY DEF Base
<1>1. CASE TakeOver
  <2>1. rows' = [f \in 1 .. Len(rows) |-> [rows[f] EXCEPT !.grace = FALSE]]
    BY <1>0, <1>1 DEF TakeOver, TypeOK
  <2>2. \A f \in 1 .. Len(rows) : [rows[f] EXCEPT !.grace = FALSE] \in FamilyRows
    <3> TAKE f \in 1 .. Len(rows)
    <3>1. rows[f] \in FamilyRows
      BY <1>0, RowsType DEF TypeOK
    <3> QED
      BY <3>1, RowUpdates, Zenon
  <2>3. rows' \in Seq(FamilyRows)
    BY <1>0, <2>1, <2>2 DEF TypeOK
  <2> QED
    BY <1>0, <1>1, <2>3, Types DEF TakeOver, TypeOK
<1>2. CASE SignOut
  BY <1>0, <1>2, DisturbType, Types DEF SignOut, TypeOK
<1>3. CASE StoreSpoils
  BY <1>0, <1>3, DisturbType DEF StoreSpoils, TypeOK
<1>4. CASE StoreHeals
  BY <1>0, <1>4 DEF StoreHeals, TypeOK
<1>5. CASE OtherVerdict
  BY <1>0, <1>5, DisturbType, Types DEF OtherVerdict, TypeOK
<1>6. ASSUME NEW f \in DOMAIN rows, GraceEnds(f) \/ FamilyDies(f)
      PROVE  TypeOK'
  <2>1. rows[f] \in FamilyRows
    BY <1>0, RowsType DEF TypeOK
  <2>2. /\ [rows[f] EXCEPT !.grace = FALSE] \in FamilyRows
        /\ [rows[f] EXCEPT !.alive = FALSE, !.grace = FALSE] \in FamilyRows
    BY <2>1, RowUpdates
  <2>3. \/ rows' = [rows EXCEPT ![f] = [rows[f] EXCEPT !.grace = FALSE]]
        \/ rows' = [rows EXCEPT ![f] = [rows[f] EXCEPT !.alive = FALSE, !.grace = FALSE]]
    BY <1>6 DEF GraceEnds, FamilyDies
  <2>4. rows' \in Seq(FamilyRows)
    <3>1. PICK row \in FamilyRows : rows' = [rows EXCEPT ![f] = row]
      BY <2>2, <2>3, Zenon
    <3> QED
      BY <1>0, <3>1 DEF TypeOK
  <2>5. faults' \in 0 .. MaxFaults
    BY <1>0, <1>6, DisturbType DEF GraceEnds, FamilyDies, TypeOK
  <2> QED
    BY <1>0, <1>6, <2>4, <2>5 DEF GraceEnds, FamilyDies, TypeOK
<1>7. ASSUME NEW p \in Procs,
             CoolsDown(p) \/ SiblingEnters(p) \/ SiblingLeaves(p)
      PROVE  TypeOK'
  BY <1>0, <1>7, DisturbType DEF CoolsDown, SiblingEnters, SiblingLeaves,
     Leaves, TypeOK
<1>8. ASSUME NEW client \in Clients, Login(client)
      PROVE  TypeOK'
  <2>1. rows' \in Seq(FamilyRows)
    BY <1>0, <1>8, MintedType DEF Login, TypeOK
  <2>2. [family |-> Len(rows) + 1, gen |-> 0] \in Tokens
    BY <1>0, <1>8, Bounds DEF Login, TypeOK, Tokens, Families
  <2>3. store' \in Records
    BY <1>8, <2>2 DEF Login, Records, AnyToken
  <2> QED
    BY <1>0, <1>8, <2>1, <2>3, DisturbType DEF Login, TypeOK
<1> QED
  BY <1>1, <1>2, <1>3, <1>4, <1>5, <1>6, <1>7, <1>8 DEF World

-----------------------------------------------------------------------------
(* Steps.                                                                  *)

\* A step of c, its requests and answers that are lost included.
CallStep(c) ==
    \/ \E m \in ModesOf[c] : Call(c, m)
    \/ Refresh(c) \/ PresentFails(c) \/ Lose(c) \/ Cancel(c)

\* Every step is one of a call, a crash, or one of the world.
LEMMA Steps ==
  ASSUME Next
  PROVE  \/ \E c \in Calls : CallStep(c)
         \/ \E p \in Procs : Crash(p)
         \/ World
  BY DEF Next, Environment, CallStep, World

\* The actions that end a call.
LEMMA Endings ==
  ASSUME NEW c \in Calls,
         \/ EnterAndAdopt(c) \/ EnterInVain(c) \/ Refused(c) \/ WriteRotation(c)
         \/ WriteFails(c) \/ RecheckAdopts(c) \/ RecheckCondemns(c) \/ Busy(c)
  PROVE  \E kind, t : Ends(c, kind, t)
  BY DEF EnterAndAdopt, EnterInVain, Refused, WriteRotation, WriteFails,
     RecheckAdopts, RecheckCondemns, Busy

\* How a call comes to where it is.
LEMMA Arrivals ==
  ASSUME TypeOK, NEW c \in Calls, CallStep(c)
  PROVE  /\ pc'[c] = "present" => EnterToRefresh(c) \/ TryNextId(c)
         /\ pc'[c] = "await" =>
                \/ Present(c)
                \/ (PresentFails(c) \/ Lose(c) \/ Cancel(c))
                   /\ reply'[c] \in {"transient", "cancelled"}
         /\ pc'[c] = "write" => Accept(c)
         /\ pc'[c] = "recheck" => Condemned(c)
         /\ pc'[c] = "sleep" => Transient(c) /\ RetriesLeft(c) /\ UNCHANGED call
<1>1. (\E kind, t : Ends(c, kind, t)) => pc'[c] = "done"
  BY DEF Ends, TypeOK
<1>2. (\E m \in ModesOf[c] : Call(c, m)) => pc'[c] \in {"waitLock", "done"}
  BY DEF Call, TypeOK
<1>3. Retry(c) => pc'[c] = "waitLock" \/ \E kind, t : Ends(c, kind, t)
  BY DEF Retry, TypeOK
<1>4. Transient(c) =>
        \/ pc'[c] = "sleep" /\ RetriesLeft(c) /\ UNCHANGED call
        \/ \E kind, t : Ends(c, kind, t)
  BY DEF Transient, TypeOK
<1>5. /\ Return(c) => pc'[c] = "idle"
      /\ EnterToRefresh(c) \/ TryNextId(c) => pc'[c] = "present"
      /\ Accept(c) => pc'[c] = "write"
      /\ Condemned(c) => pc'[c] = "recheck"
      /\ Present(c) => pc'[c] = "await"
  BY DEF Return, EnterToRefresh, TryNextId, Accept, Condemned, Present, Goto,
     TypeOK
<1>6. PresentFails(c) \/ Lose(c) \/ Cancel(c) =>
        reply'[c] \in {"transient", "cancelled"} /\ pc'[c] = "await"
  BY DEF PresentFails, Lose, Cancel, Goto, TypeOK
<1> QED
  BY <1>1, <1>2, <1>3, <1>4, <1>5, <1>6, Endings DEF CallStep, Refresh

\* Every step keeps the types.
LEMMA TypeNext ==
  ASSUME Base, [Next]_vars
  PROVE  TypeOK'
<1>1. CASE \E c \in Calls : CallStep(c)
  BY <1>1, TypeCall, TypeRefresh, TypeAnswer DEF CallStep
<1>2. CASE \E p \in Procs : Crash(p)
  BY <1>2, TypeCrash
<1>3. CASE World
  BY <1>3, TypeWorld
<1>4. CASE UNCHANGED vars
  BY <1>4 DEF vars, disk, memory, call, server, history, Base, TypeOK
<1> QED
  BY <1>1, <1>2, <1>3, <1>4, Steps

\* A call changes its own local state only.
LEMMA Bystander ==
  ASSUME TypeOK, NEW c \in Calls, NEW d \in Calls, d # c, CallStep(c)
  PROVE  /\ pc'[d] = pc[d] /\ mode'[d] = mode[d] /\ snap'[d] = snap[d]
         /\ tok'[d] = tok[d] /\ ids'[d] = ids[d] /\ reply'[d] = reply[d]
         /\ attempt'[d] = attempt[d] /\ out'[d] = out[d]
<1> USE DEF TypeOK, call, Goto
<1>1. ASSUME NEW m \in ModesOf[c], Call(c, m)
      PROVE  /\ pc'[d] = pc[d] /\ mode'[d] = mode[d] /\ snap'[d] = snap[d]
             /\ tok'[d] = tok[d] /\ ids'[d] = ids[d] /\ reply'[d] = reply[d]
             /\ attempt'[d] = attempt[d] /\ out'[d] = out[d]
  BY <1>1 DEF Call
<1>0. ASSUME NEW kind, NEW t, Ends(c, kind, t)
      PROVE  /\ pc'[d] = pc[d] /\ mode'[d] = mode[d] /\ snap'[d] = snap[d]
             /\ tok'[d] = tok[d] /\ ids'[d] = ids[d] /\ reply'[d] = reply[d]
             /\ attempt'[d] = attempt[d] /\ out'[d] = out[d]
  BY <1>0 DEF Ends
<1>2. CASE EnterAndAdopt(c) \/ EnterInVain(c)
  BY <1>0, <1>2 DEF EnterAndAdopt, EnterInVain
<1>3. CASE EnterToRefresh(c)
  BY <1>3 DEF EnterToRefresh
<1>4. CASE Present(c) \/ TryNextId(c) \/ Condemned(c) \/ Accept(c)
  BY <1>4 DEF Present, TryNextId, Condemned, Accept
<1>5. CASE Refused(c) \/ WriteRotation(c) \/ WriteFails(c)
  BY <1>0, <1>5 DEF Refused, WriteRotation, WriteFails
<1>6. CASE Transient(c)
  BY <1>0, <1>6 DEF Transient
<1>7. CASE RecheckAdopts(c) \/ RecheckCondemns(c) \/ Busy(c)
  BY <1>0, <1>7 DEF RecheckAdopts, RecheckCondemns, Busy
<1>8. CASE Retry(c)
  BY <1>0, <1>8 DEF Retry
<1>9. CASE Return(c)
  BY <1>9 DEF Return
<1>10. CASE PresentFails(c) \/ Lose(c) \/ Cancel(c)
  BY <1>10 DEF PresentFails, Lose, Cancel
<1> QED
  BY <1>1, <1>2, <1>3, <1>4, <1>5, <1>6, <1>7, <1>8, <1>9, <1>10 DEF CallStep,
     Refresh

\* Only a write changes the store.
LEMMA CallStore ==
  ASSUME NEW c \in Calls, CallStep(c), ~WriteRotation(c)
  PROVE  UNCHANGED store
  BY DEF disk, CallStep, Refresh, Call, EnterAndAdopt, EnterInVain,
     EnterToRefresh, Present, TryNextId, Refused, Transient, Condemned,
     Accept, WriteFails, RecheckAdopts, RecheckCondemns, Retry, Busy, Return,
     PresentFails, Lose, Cancel

\* Only a request changes what the server keeps.
LEMMA CallRows ==
  ASSUME NEW c \in Calls, CallStep(c), ~Present(c)
  PROVE  UNCHANGED <<rows, hits, revoked>>
  BY DEF server, CallStep, Refresh, Call, EnterAndAdopt, EnterInVain,
     EnterToRefresh, TryNextId, Refused, Transient, Condemned, Accept,
     WriteRotation, WriteFails, RecheckAdopts, RecheckCondemns, Retry, Busy,
     Return, PresentFails, Lose, Cancel

\* The lock, the store and the server are a call's to change only inside the
\* section, or when it enters it.
LEMMA OutsideKeeps ==
  ASSUME NEW c \in Calls, Sound(c), CallStep(c)
  PROVE  \/ holder \in {NoCall, c} /\ (holder = NoCall => UNCHANGED <<store, rows>>)
         \/ UNCHANGED <<holder, store, rows>>
<1>1. CASE pc[c] \in Inside
  BY <1>1, Types DEF Sound
<1>2. CASE pc[c] \notin Inside
  <2>1. UNCHANGED store
    BY <1>2, CallStore DEF WriteRotation, Inside
  <2>2. UNCHANGED rows
    BY <1>2, CallRows DEF Present, Goto, Inside
  <2>3. holder' = holder \/ holder = NoCall
    BY <1>2 DEF CallStep, Refresh, Call, EnterAndAdopt, EnterInVain,
       EnterToRefresh, Enter, Present, TryNextId, Refused, Transient,
       Condemned, Accept, WriteRotation, WriteFails, RecheckAdopts,
       RecheckCondemns, Retry, Busy, Return, PresentFails, Lose, Cancel, Goto,
       Inside
  <2> QED
    BY <2>1, <2>2, <2>3
<1> QED
  BY <1>1, <1>2

\* A world step leaves the calls alone, and a crash all but its own.
LEMMA WorldKeeps ==
  ASSUME World
  PROVE  /\ UNCHANGED <<pc, call>>
         /\ \A d \in Calls : holder = d => holder' = d /\ store' = store
  BY ProviderAssumption DEF World, TakeOver, SignOut, StoreSpoils, StoreHeals,
     OtherVerdict, GraceEnds, FamilyDies, CoolsDown, SiblingEnters,
     SiblingLeaves, Login, Leaves, disk

\* A crash ends the calls of its process and leaves the others alone.
LEMMA CrashKeeps ==
  ASSUME NEW p \in Procs, Crash(p), NEW d \in Calls
  PROVE  /\ ProcOf[d] = p => /\ pc'[d] = "idle" /\ mode'[d] = "valid" /\ out'[d] = NoOutcome
                             /\ tok'[d] = NoToken /\ snap'[d] = NoToken
         /\ ProcOf[d] # p => /\ pc'[d] = pc[d] /\ mode'[d] = mode[d] /\ snap'[d] = snap[d]
                             /\ tok'[d] = tok[d] /\ ids'[d] = ids[d]
                             /\ reply'[d] = reply[d]
                             /\ attempt'[d] = attempt[d] /\ out'[d] = out[d]
                             /\ holder = d => holder' = d
         /\ UNCHANGED <<store, readable, memo, rows, hits, revoked>>
  BY Types DEF Crash, disk, server

\* What the server keeps of a family: a rotation at a time, by the call inside.
LEMMA ServerAnswers ==
  ASSUME Base, NEW c \in Calls, Present(c)
  PROVE  LET f == tok[c].family
             verdict == Verdict(rows[f], tok[c].gen, Head(ids[c]))
         IN  /\ tok[c] # NoToken /\ f \in DOMAIN rows
             /\ tok[c].gen \in Nat /\ rows[f] \in FamilyRows
             /\ verdict \in Verdicts
             /\ DOMAIN rows' = DOMAIN rows
             /\ rows'[f] = Applied(rows[f], verdict)
             /\ \A g \in DOMAIN rows : g # f => rows'[g] = rows[g]
             /\ reply'[c] = verdict
             /\ verdict = "rotate" => rows[f].head < MaxGen
<1> DEFINE f == tok[c].family
           verdict == Verdict(rows[f], tok[c].gen, Head(ids[c]))
<1>0. TypeOK /\ Sound(c) /\ Issued(store.tok)
  BY DEF Base
<1>1. tok[c] # NoToken /\ tok[c] = store.tok /\ tok[c] \in AnyToken
  BY <1>0 DEF Sound, Present, Goto, Inside, TypeOK
<1>2. f \in DOMAIN rows /\ tok[c].gen \in Nat /\ rows[f] \in FamilyRows
  BY <1>0, <1>1, TokenType, RowsType DEF Issued, TypeOK
<1>3. verdict \in Verdicts
  BY <1>2, VerdictType
<1>4. /\ rows' = [rows EXCEPT ![f] = Applied(rows[f], verdict)]
      /\ reply' = [reply EXCEPT ![c] = verdict]
      /\ (verdict = "rotate" => rows[f].head < MaxGen)
  BY DEF Present
<1> HIDE DEF f, verdict
<1>5. rows \in Seq(FamilyRows) /\ reply \in [Calls -> Replies]
  BY <1>0 DEF TypeOK
<1>6. /\ DOMAIN rows' = DOMAIN rows
             /\ rows'[f] = Applied(rows[f], verdict)
             /\ \A g \in DOMAIN rows : g # f => rows'[g] = rows[g]
  BY <1>2, <1>4, <1>5
<1>7. reply'[c] = verdict
  BY <1>4, <1>5
<1> QED
  BY <1>1, <1>2, <1>3, <1>4, <1>6, <1>7 DEF f, verdict

\* Families never go, their client stays, their head never goes back, and a
\* dead one stays dead.
LEMMA RowsGrow ==
  ASSUME Base, [Next]_vars
  PROVE  /\ DOMAIN rows \subseteq DOMAIN rows'
         /\ \A f \in DOMAIN rows :
              /\ rows'[f].client = rows[f].client
              /\ rows'[f].head >= rows[f].head
              /\ rows'[f].alive => rows[f].alive
              /\ rows'[f].grace => rows[f].grace \/ \E c \in Calls : Present(c)
              /\ (\A c \in Calls : ~Present(c)) => rows'[f].head = rows[f].head
<1>0. TypeOK /\ rows \in Seq(FamilyRows)
  BY DEF Base, TypeOK
<1>1. ASSUME NEW f \in DOMAIN rows
      PROVE  rows[f] \in FamilyRows /\ rows[f].head \in Nat
  BY <1>0, RowsType
<1>2. CASE UNCHANGED rows
  BY <1>1, <1>2
<1>3. ASSUME NEW c \in Calls, Present(c)
      PROVE  /\ DOMAIN rows \subseteq DOMAIN rows'
             /\ \A f \in DOMAIN rows :
                  /\ rows'[f].client = rows[f].client
                  /\ rows'[f].head >= rows[f].head
                  /\ rows'[f].alive => rows[f].alive
  BY <1>1, <1>3, ServerAnswers, AppliedType
<1>4. CASE TakeOver
  <2>1. DOMAIN rows' = DOMAIN rows
    BY <1>4 DEF TakeOver
  <2>2. ASSUME NEW f \in DOMAIN rows
        PROVE  rows'[f] = [rows[f] EXCEPT !.grace = FALSE]
    BY <1>4 DEF TakeOver
  <2>3. ASSUME NEW f \in DOMAIN rows
        PROVE  /\ ~rows'[f].grace
               /\ rows'[f].client = rows[f].client
               /\ rows'[f].head = rows[f].head
               /\ rows'[f].alive => rows[f].alive
    BY <1>1, <2>2, RowUpdates
  <2> QED
    BY <1>1, <2>1, <2>3
<1>5. ASSUME NEW g \in DOMAIN rows, GraceEnds(g) \/ FamilyDies(g)
      PROVE  /\ DOMAIN rows \subseteq DOMAIN rows'
             /\ \A f \in DOMAIN rows :
              /\ rows'[f].client = rows[f].client
              /\ rows'[f].head = rows[f].head
              /\ rows'[f].alive => rows[f].alive
              /\ rows'[f].grace => rows[f].grace
  <2>1. DOMAIN rows' = DOMAIN rows
    BY <1>0, <1>5 DEF GraceEnds, FamilyDies
  <2>2. ASSUME NEW f \in DOMAIN rows, f # g
        PROVE  rows'[f] = rows[f]
    BY <1>0, <1>5, <2>2 DEF GraceEnds, FamilyDies
  <2>3. \/ rows'[g] = [rows[g] EXCEPT !.grace = FALSE]
        \/ rows'[g] = [rows[g] EXCEPT !.alive = FALSE, !.grace = FALSE]
    BY <1>0, <1>5 DEF GraceEnds, FamilyDies
  <2>4. /\ ~rows'[g].grace
        /\ rows'[g].client = rows[g].client /\ rows'[g].head = rows[g].head
        /\ rows'[g].alive => rows[g].alive
    BY <1>1, <2>3, RowUpdates
  <2> QED
    BY <2>1, <2>2, <2>4
<1>6. ASSUME NEW client, Login(client)
      PROVE  /\ DOMAIN rows \subseteq DOMAIN rows'
             /\ \A f \in DOMAIN rows : rows'[f] = rows[f]
  BY <1>0, <1>6 DEF Login
<1>7. CASE \E c \in Calls : CallStep(c)
  BY <1>2, <1>3, <1>7, CallRows
<1>8. CASE \E p \in Procs : Crash(p)
  BY <1>2, <1>8 DEF Crash, server
<1>9. CASE World
  <2>1. CASE \/ SignOut \/ StoreSpoils \/ StoreHeals \/ OtherVerdict
             \/ \E p \in Procs :
                   CoolsDown(p) \/ SiblingEnters(p) \/ SiblingLeaves(p)
    BY <1>2, <2>1 DEF SignOut, StoreSpoils, StoreHeals, OtherVerdict,
       CoolsDown, SiblingEnters, SiblingLeaves, server
  <2> QED
    BY <1>1, <1>4, <1>5, <1>6, <1>9, <2>1 DEF World
<1> QED
  BY <1>2, <1>7, <1>8, <1>9, Steps DEF vars, server

\* A token that was minted stays minted, and a dead one dead.
LEMMA IssuedKept ==
  ASSUME Base, [Next]_vars, NEW t \in AnyToken, Issued(t)
  PROVE  Issued(t)' /\ (Alive(t)' => Alive(t))
<1>1. CASE t = NoToken
  BY <1>1 DEF Issued, Alive
<1>2. CASE t # NoToken
  <2>1. /\ t.family \in DOMAIN rows /\ t.gen \in Nat
        /\ t.gen <= rows[t.family].head
    BY <1>2, TokenType DEF Issued, Row
  <2>2. /\ rows[t.family].head \in Nat
        /\ (t.family \in DOMAIN rows' => rows'[t.family].head \in Nat)
    BY <2>1, RowsType, TypeNext DEF Base, TypeOK
  <2> QED
    BY <1>2, <2>1, <2>2, RowsGrow DEF Issued, Row, Alive
<1> QED
  BY <1>1, <1>2

-----------------------------------------------------------------------------
\* A rotation puts the next generation, the head, in the place of the token
\* it was obtained for.
LEMMA RotationMoves ==
  ASSUME Base, NEW c \in Calls, WriteRotation(c)
  PROVE  /\ InFlight(c) /\ UNCHANGED rows
         /\ store.tok \in Tokens /\ store.tok.gen \in Nat
         /\ store'.tok.family = store.tok.family
         /\ store'.tok.gen = store.tok.gen + 1
         /\ store'.tok.gen = Row(store.tok).head
<1>1. /\ tok[c] # NoToken /\ tok[c] = store.tok /\ store.tok \in AnyToken
      /\ tok[c].gen + 1 = Row(tok[c]).head
  BY DEF Base, Sound, Inside, InFlight, WriteRotation, TypeOK, Records
<1>2. store'.tok = [tok[c] EXCEPT !.gen = tok[c].gen + 1] /\ rows' = rows
  BY DEF WriteRotation, Rotated, server
<1>3. tok[c] \in Tokens /\ tok[c].gen \in Nat
  BY <1>1, TokenType
<1>4. InFlight(c)
  BY DEF WriteRotation, InFlight
<1> QED
  BY <1>1, <1>2, <1>3, <1>4 DEF Tokens

\* The store holds what the server minted.
LEMMA StoreIssued ==
  ASSUME Base, [Next]_vars
  PROVE  Issued(store.tok)'
<1>0. TypeOK /\ Issued(store.tok) /\ store.tok \in AnyToken
  BY DEF Base, TypeOK, Records
<1>1. CASE UNCHANGED store
  BY <1>0, <1>1, IssuedKept DEF Issued, Row
<1>2. ASSUME NEW c \in Calls, WriteRotation(c)
      PROVE  Issued(store.tok)'
  <2>1. store.tok # NoToken
    BY <1>2, RotationMoves, ProviderAssumption
  <2>2. rows[store.tok.family].head \in Nat
    BY <1>0, <2>1, RowsType DEF Issued, TypeOK
  <2> QED
    BY <1>0, <1>2, <2>1, <2>2, RotationMoves DEF Issued, Row
<1>3. ASSUME NEW client \in Clients, Login(client)
      PROVE  Issued(store.tok)'
  <2>1. /\ rows' = Append(rows, Minted(client))
        /\ store'.tok = [family |-> Len(rows) + 1, gen |-> 0]
    BY <1>3 DEF Login
  <2>2. rows'[Len(rows) + 1] = Minted(client) /\ Len(rows) + 1 \in DOMAIN rows'
    BY <1>0, <2>1, MintedType DEF TypeOK
  <2> QED
    BY <2>1, <2>2 DEF Issued, Row, Minted
<1>4. CASE SignOut
  BY <1>4 DEF SignOut, Issued, NoRecord
<1>5. CASE \E c \in Calls : CallStep(c)
  BY <1>1, <1>2, <1>5, CallStore
<1>6. CASE \E p \in Procs : Crash(p)
  BY <1>1, <1>6 DEF Crash, disk
<1>7. CASE World
  BY <1>1, <1>3, <1>4, <1>7 DEF World, TakeOver, StoreSpoils, StoreHeals,
     OtherVerdict, GraceEnds, FamilyDies, CoolsDown, SiblingEnters,
     SiblingLeaves, disk
<1>8. CASE UNCHANGED vars
  BY <1>1, <1>8 DEF vars, disk
<1> QED
  BY <1>5, <1>6, <1>7, <1>8, Steps

\* Ends leaves nothing behind but the outcome.
LEMMA EndsSound ==
  ASSUME TypeOK, NEW c \in Calls, NEW kind, NEW t, Ends(c, kind, t)
  PROVE  /\ Sound(c)' /\ pc'[c] = "done" /\ tok'[c] = NoToken
         /\ mode' = mode /\ out'[c] = Outcome(mode[c], kind, t)
         /\ snap'[c] \in {NoToken, snap[c]}
         /\ lost' # c
<1>1. pc'[c] = "done"
  BY DEF Ends, TypeOK
<1>2. Sound(c)'
  BY <1>1 DEF Sound, Inside, InFlight
<1> QED
  BY <1>1, <1>2, Types DEF Ends, TypeOK

\* The call that steps has the section to itself while it is inside.
LEMMA SoundAfter ==
  ASSUME Base, NEW c \in Calls, CallStep(c)
  PROVE  Sound(c)'
<1> USE DEF disk, memory, call, server, history
<1>0. TypeOK /\ Sound(c) /\ Issued(store.tok)
  BY DEF Base
<1>1. CASE \E kind, t : Ends(c, kind, t)
  BY <1>0, <1>1, EndsSound
<1>2. ASSUME NEW m \in ModesOf[c], Call(c, m)
      PROVE  Sound(c)'
  <2>1. pc'[c] = "done" \/ (pc'[c] = "waitLock" /\ out' = out)
    BY <1>0, <1>2 DEF Call, TypeOK
  <2> QED
    BY <1>0, <1>2, <2>1 DEF Call, Sound, Inside, InFlight
<1>3. CASE EnterToRefresh(c)
  <2>1. pc'[c] = "present" /\ tok'[c] = store.tok /\ ids'[c] = Candidates(c) /\ store' = store
        /\ holder' = c /\ store.tok # NoToken /\ out' = out
        /\ pc[c] = "waitLock"
    BY <1>0, <1>3 DEF EnterToRefresh, Enter, TypeOK
  <2> QED
    BY <1>0, <2>1, CandidatesType DEF Sound, Inside, InFlight
<1>4. CASE Present(c)
  <2> DEFINE f == tok[c].family
             verdict == Verdict(rows[f], tok[c].gen, Head(ids[c]))
  <2>1. /\ f \in DOMAIN rows /\ tok[c].gen \in Nat /\ rows[f] \in FamilyRows
        /\ verdict \in Verdicts /\ rows'[f] = Applied(rows[f], verdict)
        /\ verdict = "rotate" => rows[f].head < MaxGen
        /\ reply'[c] = verdict
    BY <1>4, ServerAnswers
  <2>2. verdict \in {"rotate", "replay"} => tok[c].gen + 1 = rows'[f].head
    BY <2>1, VerdictType, AppliedType
  <2>3. /\ pc[c] = "present" /\ pc'[c] = "await"
        /\ tok' = tok /\ ids' = ids /\ out' = out /\ holder' = holder
        /\ store' = store
    BY <1>0, <1>4 DEF Present, Goto, TypeOK
  <2> QED
    BY <1>0, <2>1, <2>2, <2>3 DEF Sound, Inside, InFlight, Committed, Row
<1>5. CASE PresentFails(c) \/ Lose(c) \/ Cancel(c)
  <2>1. /\ pc[c] \in {"present", "await"} /\ pc'[c] = "await"
        /\ reply'[c] \in {"transient", "cancelled"}
        /\ tok' = tok /\ ids' = ids /\ out' = out /\ holder' = holder
        /\ store' = store
    BY <1>0, <1>5 DEF PresentFails, Lose, Cancel, Goto, TypeOK
  <2> QED
    BY <1>0, <2>1 DEF Sound, Inside, InFlight, Committed
<1>6. CASE TryNextId(c)
  <2>1. /\ pc[c] = "await" /\ pc'[c] = "present" /\ ids'[c] = Tail(ids[c])
        /\ Len(ids[c]) > 1
        /\ tok' = tok /\ out' = out /\ holder' = holder /\ store' = store
    BY <1>0, <1>6 DEF TryNextId, Goto, TypeOK
  <2>2. ids[c] \in Seq(Clients)
    BY <1>0 DEF TypeOK
  <2>3. Tail(ids[c]) # <<>>
    <3>1. ids[c] # <<>> /\ Len(ids[c]) \in Nat
      BY <2>1, <2>2
    <3>2. Len(Tail(ids[c])) > 0
      BY <2>1, <2>2, <3>1, HeadTailProperties
    <3> QED
      BY <3>2
  <2> QED
    BY <1>0, <2>1, <2>3 DEF Sound, Inside, InFlight, Committed
<1>7. CASE Condemned(c) \/ Accept(c)
  <2>1. /\ pc[c] = "await"
        /\ \/ pc'[c] = "recheck"
           \/ pc'[c] = "write" /\ Committed(c) /\ holder' = holder
        /\ ids' = ids /\ rows' = rows
        /\ tok' = tok /\ out' = out /\ store' = store
    BY <1>0, <1>7 DEF Condemned, Accept, Goto, TypeOK
  <2> QED
    BY <1>0, <2>1 DEF Sound, Inside, InFlight, Committed, Row
<1>8. CASE Transient(c) /\ pc' = [pc EXCEPT ![c] = "sleep"] /\ RetriesLeft(c) /\ UNCHANGED call
  <2>1. pc[c] = "await" /\ pc'[c] = "sleep" /\ attempt[c] = 1
    BY <1>0, <1>8 DEF Transient, TypeOK, RetriesLeft
  <2> QED
    BY <1>0, <1>8, <2>1 DEF Sound, Inside, InFlight
<1>9. CASE Retry(c) /\ pc' = [pc EXCEPT ![c] = "waitLock"] /\ out' = out
  <2>1. pc[c] = "sleep" /\ pc'[c] = "waitLock"
    BY <1>0, <1>9 DEF Retry, TypeOK
  <2> QED
    BY <1>0, <1>9, <2>1 DEF Sound, Inside, InFlight
<1>10. CASE Return(c)
  <2>1. pc'[c] = "idle" /\ out'[c] = NoOutcome
    BY <1>0, <1>10 DEF Return, Goto, TypeOK
  <2> QED
    BY <2>1 DEF Sound, Inside, InFlight
<1>12. Transient(c) => \/ pc' = [pc EXCEPT ![c] = "sleep"] /\ RetriesLeft(c) /\ UNCHANGED call
                       \/ \E kind, t : Ends(c, kind, t)
  BY DEF Transient
<1>13. Retry(c) => \/ pc' = [pc EXCEPT ![c] = "waitLock"] /\ out' = out
                   \/ \E kind, t : Ends(c, kind, t)
  BY DEF Retry
<1> QED
  BY <1>1, <1>2, <1>3, <1>4, <1>5, <1>6, <1>7, <1>8, <1>9, <1>10, Endings,
     <1>12, <1>13 DEF CallStep, Refresh

\* So has every other one,
LEMMA SoundBystander ==
  ASSUME Base, NEW c \in Calls, NEW d \in Calls, d # c, CallStep(c)
  PROVE  Sound(d)'
<1>0. TypeOK /\ Sound(c) /\ Sound(d) /\ Issued(store.tok)
  BY DEF Base
<1>1. /\ pc'[d] = pc[d] /\ tok'[d] = tok[d] /\ ids'[d] = ids[d]
      /\ reply'[d] = reply[d]
      /\ attempt'[d] = attempt[d] /\ out'[d] = out[d]
  BY <1>0, Bystander
<1>2. pc[d] \in Inside => UNCHANGED <<holder, store, rows>>
  BY <1>0, Types, OutsideKeeps DEF Sound
<1> QED
  BY <1>0, <1>1, <1>2 DEF Sound, InFlight, Inside, Committed, Row

\* while the world goes on,
LEMMA SoundWorld ==
  ASSUME Base, World, [Next]_vars, NEW d \in Calls
  PROVE  Sound(d)'
<1>0. TypeOK /\ Sound(d) /\ Issued(store.tok)
  BY DEF Base
<1>1. UNCHANGED <<pc, call>> /\ (holder = d => holder' = d /\ store' = store)
  BY WorldKeeps
<1>2. InFlight(d) => Row(tok[d]).head = rows'[tok[d].family].head
  <2>1. \A c \in Calls : ~Present(c)
    BY <1>0, <1>1 DEF Present, Goto, TypeOK
  <2>2. InFlight(d) => tok[d].family \in DOMAIN rows
    BY <1>0 DEF Sound, InFlight, Inside, Issued
  <2> QED
    BY <2>1, <2>2, RowsGrow DEF Row
<1> QED
  BY <1>0, <1>1, <1>2 DEF Sound, InFlight, Inside, Committed, call, Row

\* and when a process crashes.
LEMMA SoundCrash ==
  ASSUME Base, NEW p \in Procs, Crash(p), NEW d \in Calls
  PROVE  Sound(d)'
<1>0. TypeOK /\ Sound(d)
  BY DEF Base
<1>1. CASE ProcOf[d] = p
  BY <1>1, CrashKeeps DEF Sound, InFlight, Inside
<1>2. CASE ProcOf[d] # p
  BY <1>0, <1>2, CrashKeeps DEF Sound, InFlight, Inside, Committed, Row
<1> QED
  BY <1>1, <1>2

\* Every step keeps the section sound.
LEMMA SoundNext ==
  ASSUME Base, [Next]_vars, NEW d \in Calls
  PROVE  Sound(d)'
<1>1. CASE UNCHANGED vars
  BY <1>1 DEF vars, disk, call, server, Base, Sound, InFlight, Committed, Row
<1> QED
  BY <1>1, Steps, SoundAfter, SoundBystander, SoundWorld, SoundCrash

\* The section is entered by EnterToRefresh alone.
LEMMA Entered ==
  ASSUME TypeOK, NEW c \in Calls, CallStep(c), pc'[c] \in Inside
  PROVE  pc[c] \in Inside \/ EnterToRefresh(c)
  BY Arrivals DEF Inside, TryNextId, Present, PresentFails, Lose, Cancel,
     Accept, Goto

\* Losses stay within the interferences: each costs one of them, or belongs
\* to a store that one of them spoiled.
LEMMA LossesNext ==
  ASSUME Base, [Next]_vars
  PROVE  LossesBounded'
<1> DEFINE busy == \E c \in Calls : pc[c] \in Inside
<1>0. TypeOK /\ LossesBounded /\ losses \in Nat /\ faults \in Nat
  BY Bounds DEF Base, TypeOK
<1>1. ASSUME NEW c \in Calls, CallStep(c)
      PROVE  LossesBounded'
  <2>1. readable' = readable
    BY <1>1 DEF disk, CallStep, Refresh, Call, EnterAndAdopt, EnterInVain,
       EnterToRefresh, Present, TryNextId, Refused, Transient, Condemned,
       Accept, WriteRotation, WriteFails, RecheckAdopts, RecheckCondemns,
       Retry, Busy, Return, PresentFails, Lose, Cancel
  <2>2. ~readable => (busy' => busy)
    BY <1>0, <1>1, Bystander, Entered DEF EnterToRefresh
  <2>3. CASE Lose(c) \/ Cancel(c)
    <3>1. losses' \in {losses, losses + 1} /\ faults' = faults + 1
      BY <2>3 DEF Lose, Cancel, Disturb
    <3> QED
      BY <1>0, <2>1, <2>2, <3>1 DEF LossesBounded
  <2>4. CASE WriteFails(c)
    <3>1. pc[c] = "write" /\ pc'[c] = "done" /\ losses' = losses + 1
          /\ \/ faults' = faults + 1
             \/ ~readable /\ faults' = faults
      BY <1>0, <2>4 DEF WriteFails, Disturb, Ends, TypeOK
    <3>2. ~busy'
      <4>1. \A d \in Calls : d # c => pc'[d] = pc[d] /\ pc[d] \notin Inside
        BY <1>0, <1>1, <3>1, Bystander DEF Base, Sound, Inside
      <4> QED
        BY <3>1, <4>1 DEF Inside
    <3> QED
      BY <1>0, <3>1, <3>2 DEF LossesBounded, Inside
  <2>5. CASE ~(Lose(c) \/ Cancel(c) \/ WriteFails(c))
    <3>1. losses' = losses /\ faults' \in {faults, faults + 1}
      BY <1>1, <2>5 DEF history, CallStep, Refresh, Call, EnterAndAdopt,
         EnterInVain, EnterToRefresh, Present, TryNextId, Refused, Transient,
         Condemned, Accept, WriteRotation, RecheckAdopts, RecheckCondemns,
         Retry, Busy, Return, PresentFails, Disturb
    <3> QED
      BY <1>0, <2>1, <2>2, <3>1 DEF LossesBounded
  <2> QED
    BY <2>3, <2>4, <2>5
<1>2. ASSUME NEW p \in Procs, Crash(p)
      PROVE  LossesBounded'
  <2>1. /\ losses' \in {losses, losses + 1} /\ faults' = faults + 1
        /\ readable' = readable
    BY <1>2 DEF Crash, Disturb, disk
  <2>2. busy' => busy
    BY <1>2, CrashKeeps DEF Inside
  <2> QED
    BY <1>0, <2>1, <2>2 DEF LossesBounded
<1>3. CASE World
  <2>1. pc' = pc /\ losses' = losses
    BY <1>3 DEF World, TakeOver, SignOut, StoreSpoils, StoreHeals,
       OtherVerdict, GraceEnds, FamilyDies, CoolsDown, SiblingEnters,
       SiblingLeaves, Login, history
  <2>2. /\ faults' \in {faults, faults + 1}
        /\ (readable' \/ readable' = readable \/ faults' = faults + 1)
    BY <1>3 DEF World, TakeOver, SignOut, StoreSpoils, StoreHeals,
       OtherVerdict, GraceEnds, FamilyDies, CoolsDown, SiblingEnters,
       SiblingLeaves, Login, history, Disturb, disk
  <2> QED
    BY <1>0, <2>1, <2>2 DEF LossesBounded
<1>4. CASE UNCHANGED vars
  BY <1>0, <1>4 DEF vars, disk, history, LossesBounded
<1> QED
  BY <1>1, <1>2, <1>3, <1>4, Steps

\* The initial state is sound.
LEMMA BaseInit ==
  ASSUME Init
  PROVE  Base
<1>1. /\ rows \in Seq(FamilyRows) /\ rows[1] = Minted(MintClient)
      /\ 1 \in DOMAIN rows
  BY MintedType, ProviderAssumption DEF Init
<1>2. [family |-> 1, gen |-> 0] \in Tokens /\ MintClient \in Clients
  BY Bounds, ProviderAssumption DEF Tokens, Families
<1>3. TypeOK
  BY <1>1, <1>2, Types, Bounds DEF Init, TypeOK, Records, AnyToken, Pcs,
     Modes, Replies
<1>4. Issued(store.tok)
  BY <1>1 DEF Init, Issued, Row, Minted
<1>5. \A c \in Calls : Sound(c)
  BY DEF Init, Sound, Inside, InFlight
<1>6. LossesBounded
  BY DEF Init, LossesBounded
<1> QED
  BY <1>3, <1>4, <1>5, <1>6 DEF Base

\* Every step keeps the base.
LEMMA BaseNext ==
  ASSUME Base, [Next]_vars
  PROVE  Base'
  BY TypeNext, StoreIssued, SoundNext, LossesNext DEF Base

\* The base is an invariant.
LEMMA BaseInvariant == Spec => []Base
<1>1. Base /\ [Next]_vars => Base'
  BY BaseNext
<1> QED
  BY <1>1, BaseInit, PTL DEF Spec

\* The variables of the provider, of the store and of the server keep their
\* types: no write stores a generation that the server did not issue, and the
\* losses stay within the interferences.
THEOREM TypeCorrect == Spec => []TypeOK
<1>1. Base => TypeOK
  BY DEF Base
<1> QED
  BY <1>1, BaseInvariant, PTL

-----------------------------------------------------------------------------
(* The debt: what the server did and the store does not know.              *)

\* A rotation that the store missed is owed to a loss, and each loss is
\* replayed at most once.
Debt ==
    /\ hits <= losses
    /\ (/\ store.tok # NoToken /\ ~Newest(store.tok)
        /\ \A c \in Calls : ~InFlight(c)) => hits < losses
    /\ revoked # {} => losses > 0

\* A rotation that is under way reaches the store or is counted as lost.
LEMMA FlightEnds ==
  ASSUME Base, NEW c \in Calls, CallStep(c), InFlight(c), ~InFlight(c)'
  PROVE  losses' = losses + 1 \/ WriteRotation(c)
<1>0. TypeOK
  BY DEF Base
<1>1. ~ \E m \in ModesOf[c] : Call(c, m)
  BY DEF Call, InFlight
<1>2. Refresh(c) => WriteRotation(c) \/ WriteFails(c) \/ Accept(c)
  BY DEF Refresh, InFlight, Committed, IsVerdict, EnterAndAdopt, EnterInVain,
     EnterToRefresh, Enter, Present, TryNextId, Refused, Transient, Condemned,
     RecheckAdopts, RecheckCondemns, Retry, Busy, Return, Goto
<1>3. ~Accept(c)
  BY <1>0 DEF Accept, Goto, TypeOK, InFlight
<1>4. WriteFails(c) => losses' = losses + 1
  BY DEF WriteFails
<1>5. Lose(c) \/ Cancel(c) => losses' = losses + 1
  BY DEF Lose, Cancel, InFlight
<1>6. ~PresentFails(c)
  BY DEF PresentFails, Goto, InFlight
<1> QED
  BY <1>1, <1>2, <1>3, <1>4, <1>5, <1>6 DEF CallStep

\* A rotation begins with a request.
LEMMA FlightBegins ==
  ASSUME Base, NEW c \in Calls, CallStep(c), InFlight(c)'
  PROVE  InFlight(c) \/ Present(c)
<1>1. pc'[c] = "write" => Accept(c)
  BY Arrivals DEF Base
<1>2. pc'[c] = "await" => Present(c) \/ reply'[c] \in {"transient", "cancelled"}
  BY Arrivals DEF Base
<1> QED
  BY <1>1, <1>2 DEF InFlight, Committed, Accept, Goto

\* Losses are never taken back.
LEMMA LossesGrow ==
  ASSUME [Next]_vars
  PROVE  losses' \in {losses, losses + 1}
<1>1. ASSUME NEW c \in Calls, CallStep(c)
      PROVE  losses' \in {losses, losses + 1}
  BY <1>1 DEF history, CallStep, Refresh, Call, EnterAndAdopt, EnterInVain,
     EnterToRefresh, Present, TryNextId, Refused, Transient, Condemned,
     Accept, WriteRotation, WriteFails, RecheckAdopts, RecheckCondemns, Retry,
     Busy, Return, PresentFails, Lose, Cancel
<1>2. ASSUME NEW p \in Procs, Crash(p)
      PROVE  losses' \in {losses, losses + 1}
  BY <1>2 DEF Crash
<1>3. World => losses' = losses
  BY DEF World, TakeOver, SignOut, StoreSpoils, StoreHeals, OtherVerdict,
     GraceEnds, FamilyDies, CoolsDown, SiblingEnters, SiblingLeaves, Login,
     history
<1> QED
  BY <1>1, <1>2, <1>3, Steps DEF vars, history

\* The world makes the server neither replay nor revoke.
LEMMA WorldServer ==
  ASSUME World
  PROVE  UNCHANGED <<hits, revoked>>
  BY DEF World, TakeOver, SignOut, StoreSpoils, StoreHeals, OtherVerdict,
     GraceEnds, FamilyDies, CoolsDown, SiblingEnters, SiblingLeaves, Login,
     server

\* What the store holds is the newest after a step that changes it.
LEMMA StoreNewest ==
  ASSUME Base, [Next]_vars, store'.tok # NoToken, store' # store
  PROVE  Newest(store.tok)'
<1>0. TypeOK /\ Issued(store.tok) /\ store.tok \in AnyToken
  BY DEF Base, TypeOK, Records
<1>1. ASSUME NEW c \in Calls, WriteRotation(c)
      PROVE  Newest(store.tok)'
  BY <1>1, RotationMoves DEF Newest, Row
<1>2. ASSUME NEW client \in Clients, Login(client)
      PROVE  Newest(store.tok)'
  <2>1. /\ rows' = Append(rows, Minted(client))
        /\ store'.tok = [family |-> Len(rows) + 1, gen |-> 0]
    BY <1>2 DEF Login
  <2>2. rows'[Len(rows) + 1] = Minted(client)
    BY <1>0, <2>1, MintedType DEF TypeOK
  <2> QED
    BY <2>1, <2>2 DEF Newest, Row, Minted
<1>3. ~SignOut
  BY DEF SignOut, NoRecord
<1>4. CASE \E c \in Calls : CallStep(c)
  BY <1>1, <1>4, CallStore
<1>5. ~ \E p \in Procs : Crash(p)
  BY DEF Crash, disk
<1>6. CASE World
  BY <1>2, <1>3, <1>6 DEF World, TakeOver, StoreSpoils, StoreHeals,
     OtherVerdict, GraceEnds, FamilyDies, CoolsDown, SiblingEnters,
     SiblingLeaves, disk
<1> QED
  BY <1>4, <1>5, <1>6, Steps DEF vars, disk

\* Every step keeps the debt covered.
LEMMA DebtNext ==
  ASSUME Base, Debt, [Next]_vars
  PROVE  Debt'
<1> DEFINE Owed == /\ store.tok # NoToken /\ ~Newest(store.tok)
                   /\ \A c \in Calls : ~InFlight(c)
<1>0. /\ TypeOK /\ Issued(store.tok) /\ store.tok \in AnyToken
      /\ losses \in Nat /\ losses' \in Nat /\ hits \in Nat
      /\ losses' \in {losses, losses + 1}
  BY LossesGrow, Bounds DEF Base, TypeOK, Records
<1>1. ASSUME NEW c \in Calls, Present(c)
      PROVE  Debt'
  <2> DEFINE f == tok[c].family
             verdict == Verdict(rows[f], tok[c].gen, Head(ids[c]))
  <2>1. /\ tok[c] # NoToken /\ f \in DOMAIN rows /\ tok[c].gen \in Nat
        /\ rows[f] \in FamilyRows
        /\ verdict \in Verdicts
        /\ rows'[f] = Applied(rows[f], verdict)
        /\ reply'[c] = verdict
    BY <1>1, ServerAnswers
  <2>2. /\ pc[c] = "present" /\ pc'[c] = "await" /\ tok[c] = store.tok
        /\ holder = c
        /\ store' = store
    BY <1>0, <1>1 DEF Present, Goto, TypeOK, Base, Sound, Inside, disk
  <2>3. \A d \in Calls : ~InFlight(d)
    BY <2>2 DEF Base, Sound, InFlight, Inside
  <2>4. verdict \in {"replay", "reuse"} => hits < losses
    <3>1. verdict \in {"replay", "reuse"} => ~Newest(store.tok)
      BY <2>1, <2>2, VerdictType DEF Newest, Row, FamilyRows
    <3> QED
      BY <2>1, <2>2, <2>3, <3>1 DEF Debt
  <2>5. /\ hits' = IF verdict = "replay" THEN hits + 1 ELSE hits
        /\ revoked' = IF verdict = "reuse" THEN revoked \cup {f} ELSE revoked
        /\ losses' = losses
    BY <1>1 DEF Present, history
  <2>6. Owed' => Owed
    <3>1. verdict \in {"rotate", "replay"} => InFlight(c)'
      BY <2>1, <2>2 DEF InFlight, Committed
    <3>2. verdict \notin {"rotate", "replay"} => rows'[f].head = rows[f].head
      BY <2>1, AppliedType
    <3> QED
      BY <2>1, <2>2, <2>3, <3>1, <3>2 DEF Newest, Row
  <2> HIDE DEF verdict, f
  <2>7. Owed' => verdict # "replay"
    BY <2>1, <2>2 DEF InFlight, Committed
  <2> QED
    BY <1>0, <2>4, <2>5, <2>6, <2>7 DEF Debt
<1>2. ASSUME \A c \in Calls : ~Present(c)
      PROVE  Debt'
  <2>1. hits' = hits /\ revoked' = revoked
    BY <1>2, Steps, CallRows, WorldServer DEF Crash, server, vars
  <2>2. ASSUME Owed'
        PROVE  Owed \/ losses' = losses + 1
    <3>1. store' = store
      BY <2>2, StoreNewest
    <3>2. /\ store.tok.family \in DOMAIN rows
          /\ Row(store.tok)' .head = Row(store.tok).head
      BY <1>0, <1>2, <2>2, <3>1, RowsGrow DEF Issued, Row
    <3>3. ASSUME NEW d \in Calls, InFlight(d)
          PROVE  losses' = losses + 1
      <4>1. ASSUME NEW c \in Calls, CallStep(c)
            PROVE  losses' = losses + 1
        <5>1. CASE d = c
          BY <2>2, <3>1, <3>3, <4>1, <5>1, FlightEnds, RotationMoves
        <5>2. CASE d # c
          BY <1>0, <2>2, <3>3, <4>1, <5>2, Bystander DEF InFlight, Committed
        <5> QED
          BY <5>1, <5>2
      <4>2. ASSUME NEW p \in Procs, Crash(p)
            PROVE  losses' = losses + 1
        <5>1. CASE ProcOf[d] = p
          BY <3>3, <4>2, <5>1 DEF Crash, InFlight
        <5>2. CASE ProcOf[d] # p
          BY <2>2, <3>3, <4>2, <5>2, CrashKeeps DEF InFlight, Committed
        <5> QED
          BY <5>1, <5>2
      <4>3. UNCHANGED <<pc, reply>> => InFlight(d)'
        BY <3>3 DEF InFlight, Committed
      <4> QED
        BY <2>2, <4>1, <4>2, <4>3, Steps, WorldKeeps DEF vars, call
    <3> QED
      BY <2>2, <3>1, <3>2, <3>3 DEF Newest
  <2> QED
    BY <1>0, <2>1, <2>2 DEF Debt
<1> QED
  BY <1>1, <1>2

\* The debt is covered always.
LEMMA DebtInvariant == Spec => []Debt
<1>1. Init => Debt
  <2>1. Init => rows[1] = Minted(MintClient)
    BY DEF Init
  <2> QED
    BY <2>1 DEF Init, Debt, Newest, Row, Minted
<1>2. Base /\ Debt /\ [Next]_vars => Debt'
  BY DebtNext
<1> QED
  BY <1>1, <1>2, BaseInvariant, PTL DEF Spec

\* Every replay and every family revoked for reuse is owed to an answer or a
\* write that was lost: the fleet does not trip the reuse detection by itself.
THEOREM Attributed == Spec => []ReplaysAttributed
<1>1. Debt => ReplaysAttributed
  BY DEF Debt, ReplaysAttributed
<1> QED
  BY <1>1, DebtInvariant, PTL

\* As long as nothing was lost, the store holds the head of its family
\* whenever nobody is inside the section.
THEOREM HeadHeld == Spec => []StoreHoldsHead
<1>1. ASSUME Base, Debt, losses = 0, holder = NoCall, store.tok # NoToken
      PROVE  store.tok = HeadOf(Row(store.tok), store.tok.family)
  <2>1. \A c \in Calls : ~InFlight(c)
    BY <1>1, Types DEF Base, Sound, InFlight, Inside
  <2>2. Newest(store.tok)
    BY <1>1, <2>1 DEF Debt, Base, TypeOK
  <2>3. store.tok \in Tokens
    BY <1>1 DEF Base, TypeOK, Records, AnyToken
  <2> QED
    BY <2>2, <2>3 DEF Newest, HeadOf, Tokens
<1>2. Base /\ Debt => StoreHoldsHead
  BY <1>1 DEF StoreHoldsHead
<1> QED
  BY <1>2, BaseInvariant, DebtInvariant, PTL

-----------------------------------------------------------------------------
(* The verdicts.                                                           *)

\* The server refuses t for good.
Gone(t) == Issued(t) /\ ~Alive(t)

\* What the server condemned is dead from its answer on.
Doomed(c) ==
    (pc[c] = "await" /\ IsVerdict(reply[c])) \/ pc[c] = "recheck"
    => Gone(tok[c])

\* So is what a process or the sidecar remembers as dead.
Condemnations ==
    /\ \A c \in Calls : Doomed(c)
    /\ Gone(memo) /\ \A p \in Procs : Gone(dead[p])

\* A dead token stays dead.
LEMMA GoneKept ==
  ASSUME Base, [Next]_vars, NEW t \in AnyToken, Gone(t)
  PROVE  Gone(t)'
  BY IssuedKept DEF Gone, Alive, Issued

\* The call that steps has a verdict only on a dead family.
LEMMA DoomedAfter ==
  ASSUME Base, [Next]_vars, NEW c \in Calls, Doomed(c), CallStep(c)
  PROVE  Doomed(c)'
<1>0. TypeOK /\ Sound(c) /\ tok[c] \in AnyToken /\ Issued(store.tok)
  BY DEF Base, TypeOK
<1>1. CASE Present(c)
  <2> DEFINE f == tok[c].family
             verdict == Verdict(rows[f], tok[c].gen, Head(ids[c]))
  <2>1. /\ tok[c] # NoToken /\ f \in DOMAIN rows /\ tok[c].gen \in Nat
        /\ rows[f] \in FamilyRows
        /\ verdict \in Verdicts
        /\ rows'[f] = Applied(rows[f], verdict)
        /\ reply'[c] = verdict
    BY <1>1, ServerAnswers
  <2>2. /\ pc'[c] = "await" /\ tok[c] = store.tok /\ tok' = tok
    BY <1>0, <1>1 DEF Present, Goto, TypeOK, Sound, Inside
  <2>3. Issued(tok[c])'
    BY <1>0, <2>2, IssuedKept DEF Issued, Row
  <2>4. verdict \in {"invalid", "reuse"} => ~rows'[f].alive
    BY <2>1, VerdictType DEF Applied, FamilyRows
  <2> QED
    BY <2>1, <2>2, <2>3, <2>4 DEF Doomed, Gone, IsVerdict, Alive, Row
<1>2. CASE Condemned(c)
  <2>1. tok' = tok /\ Gone(tok[c])
    BY <1>2 DEF Condemned, Goto, Doomed, call
  <2> QED
    BY <1>0, <2>1, GoneKept DEF Doomed, Gone, Issued, Alive, Row
<1> QED
  BY <1>0, <1>1, <1>2, Arrivals DEF Doomed, IsVerdict

\* Every step keeps the verdicts true.
LEMMA DoomedNext ==
  ASSUME Base, [Next]_vars, NEW d \in Calls, Doomed(d)
  PROVE  Doomed(d)'
<1>0. TypeOK /\ tok[d] \in AnyToken
  BY DEF Base, TypeOK
<1>1. CASE pc'[d] = pc[d] /\ reply'[d] = reply[d] /\ tok'[d] = tok[d]
  <2>1. Gone(tok[d]) => Gone(tok[d])'
    <3>1. ASSUME NEW t \in AnyToken, Gone(t), t = tok'[d]
          PROVE  Gone(tok[d])'
      BY <3>1, GoneKept DEF Gone, Issued, Alive, Row
    <3> QED
      BY <1>0, <1>1, <3>1
  <2> QED
    BY <1>1, <2>1 DEF Doomed
<1>2. ASSUME NEW c \in Calls, CallStep(c)
      PROVE  Doomed(d)'
  BY <1>0, <1>1, <1>2, DoomedAfter, Bystander
<1>3. ASSUME NEW p \in Procs, Crash(p)
      PROVE  Doomed(d)'
  BY <1>1, <1>3, CrashKeeps DEF Doomed
<1> QED
  BY <1>1, <1>2, <1>3, Steps, WorldKeeps DEF vars, call

\* Only what a call was told, or what is known already, is remembered as dead.
LEMMA CondemnationsNext ==
  ASSUME Base, Condemnations, [Next]_vars
  PROVE  Condemnations'
<1>0. TypeOK /\ memo \in AnyToken /\ \A p \in Procs : dead[p] \in AnyToken
  BY DEF Base, TypeOK
<1> DEFINE Known == {NoToken, memo} \cup {dead[p] : p \in Procs}
               \cup {tok[c] : c \in {d \in Calls : pc[d] = "recheck"}}
<1>1. \A t \in Known : t \in AnyToken /\ Gone(t)
  BY <1>0, Types DEF Condemnations, Doomed, Gone, Issued, Alive, Base, TypeOK
<1>2. ASSUME NEW c \in Calls, CallStep(c)
      PROVE  memo' \in Known /\ \A p \in Procs : dead'[p] \in Known
  <2>1. CASE \E m \in ModesOf[c] : Call(c, m)
    BY <1>0, <2>1 DEF Call, disk, TypeOK
  <2>2. CASE RecheckCondemns(c)
    BY <1>0, <2>2 DEF RecheckCondemns, TypeOK
  <2>3. CASE UNCHANGED <<memo, dead>>
    BY <2>3
  <2> QED
    BY <1>2, <2>1, <2>2, <2>3 DEF CallStep, Refresh, EnterAndAdopt,
       EnterInVain, EnterToRefresh, Present, TryNextId, Refused, Transient,
       Condemned, Accept, WriteRotation, WriteFails, RecheckAdopts, Retry,
       Busy, Return, PresentFails, Lose, Cancel, disk, memory
<1>3. ASSUME NEW p \in Procs, Crash(p)
      PROVE  memo' \in Known /\ \A q \in Procs : dead'[q] \in Known
  BY <1>0, <1>3 DEF Crash, disk, TypeOK
<1>4. ASSUME World
      PROVE  memo' \in Known /\ \A q \in Procs : dead'[q] \in Known
  <2>1. memo' \in {memo, NoToken} /\ dead' = dead
    BY <1>4 DEF World, TakeOver, SignOut, StoreSpoils, StoreHeals,
       OtherVerdict, GraceEnds, FamilyDies, CoolsDown, SiblingEnters,
       SiblingLeaves, Login, disk, memory
  <2> QED
    BY <2>1
<1>5. memo' \in Known /\ \A q \in Procs : dead'[q] \in Known
  <2>1. CASE UNCHANGED vars
    BY <2>1 DEF vars, disk, memory
  <2> HIDE DEF Known
  <2> QED
    BY <1>2, <1>3, <1>4, <2>1, Steps
<1>6. ASSUME NEW t \in Known
      PROVE  Gone(t)'
  BY <1>1, GoneKept
<1>7. Gone(memo)' /\ \A p \in Procs : Gone(dead[p])'
  <2> HIDE DEF Known
  <2>1. ASSUME NEW t, Gone(t)'
        PROVE  /\ t = memo' => Gone(memo)'
               /\ \A p \in Procs : t = dead'[p] => Gone(dead[p])'
    BY <2>1 DEF Gone, Issued, Alive, Row
  <2> QED
    BY <1>5, <1>6, <2>1
<1>8. \A c \in Calls : Doomed(c)'
  BY DoomedNext DEF Condemnations
<1> QED
  BY <1>7, <1>8 DEF Condemnations

\* The verdicts are true always.
LEMMA CondemnationsInvariant == Spec => []Condemnations
<1>1. Init => Condemnations
  BY DEF Init, Condemnations, Doomed, Gone, Issued, Alive
<1>2. Base /\ Condemnations /\ [Next]_vars => Condemnations'
  BY CondemnationsNext
<1> QED
  BY <1>1, <1>2, BaseInvariant, PTL DEF Spec

\* A token that a process or the sidecar holds for dead is refused by the
\* server for good.
THEOREM VerdictsTrue == Spec => []VerdictIsTrue
<1>1. Condemnations => VerdictIsTrue
  BY DEF Condemnations, VerdictIsTrue, Gone
<1> QED
  BY <1>1, CondemnationsInvariant, PTL

-----------------------------------------------------------------------------
(* The order of the tokens.                                                *)

\* The store holds t, or a token obtained later.
Reached(t) == store.tok # NoToken => Upto(t, store.tok)

\* The token a call started from, the one it presents and the one the store
\* holds come in this order.
Ordered(c) ==
    /\ Issued(snap[c]) /\ Issued(tok[c])
    /\ pc[c] \in Inside \cup {"waitLock", "recheck", "sleep"} =>
        snap[c] # NoToken /\ Reached(snap[c])
    /\ pc[c] \in Inside \cup {"recheck", "sleep"} =>
        Upto(snap[c], tok[c]) /\ Reached(tok[c])

\* What a call hands out whose own token will not do.
MovesOn(c) ==
    out[c].kind = "served" /\ mode[c] = "needy"
    => /\ out[c].tok # snap[c]
       /\ out[c].tok.family = snap[c].family => out[c].tok.gen > snap[c].gen

\* The store never falls back behind a token it has reached.
LEMMA ReachedKept ==
  ASSUME Base, [Next]_vars, NEW t \in AnyToken, t # NoToken, Issued(t),
         Reached(t)
  PROVE  Reached(t)'
<1>0. TypeOK /\ store.tok \in AnyToken /\ t.family \in Nat /\ t.gen \in Nat
  BY TokenType, Bounds DEF Base, TypeOK, Records, Families
<1>1. CASE UNCHANGED store
  BY <1>1 DEF Reached, Upto
<1>2. ASSUME NEW c \in Calls, WriteRotation(c)
      PROVE  Reached(t)'
  BY <1>0, <1>2, RotationMoves, ProviderAssumption DEF Reached, Upto, Tokens,
     Families
<1>3. ASSUME NEW client \in Clients, Login(client)
      PROVE  Reached(t)'
  <2>1. store'.tok = [family |-> Len(rows) + 1, gen |-> 0]
    BY <1>3 DEF Login
  <2>2. t.family \in 1 .. Len(rows)
    BY <1>0 DEF Issued, TypeOK
  <2> QED
    BY <1>0, <2>1, <2>2 DEF Reached, Upto, TypeOK
<1>4. CASE SignOut
  BY <1>4 DEF SignOut, Reached, NoRecord
<1>5. CASE \E c \in Calls : CallStep(c)
  BY <1>1, <1>2, <1>5, CallStore
<1>6. CASE \E p \in Procs : Crash(p)
  BY <1>1, <1>6 DEF Crash, disk
<1>7. CASE World
  BY <1>1, <1>3, <1>4, <1>7 DEF World, TakeOver, StoreSpoils, StoreHeals,
     OtherVerdict, GraceEnds, FamilyDies, CoolsDown, SiblingEnters,
     SiblingLeaves, disk
<1>8. CASE UNCHANGED vars
  BY <1>1, <1>8 DEF vars, disk
<1> QED
  BY <1>5, <1>6, <1>7, <1>8, Steps

\* The tokens of a call that it does not change stay in order.
LEMMA OrderedStill ==
  ASSUME Base, [Next]_vars, NEW d \in Calls, Ordered(d),
         UNCHANGED <<pc[d], snap[d], tok[d]>>
  PROVE  Ordered(d)'
<1>0. TypeOK /\ snap[d] \in AnyToken /\ tok[d] \in AnyToken /\ Sound(d)
  BY DEF Base, TypeOK
<1>1. ASSUME NEW t \in AnyToken, Issued(t)
      PROVE  Issued(t)' /\ (t # NoToken /\ Reached(t) => Reached(t)')
  BY <1>1, IssuedKept, ReachedKept
<1>2. /\ Issued(snap[d])'
      /\ (snap[d] # NoToken /\ Reached(snap[d]) => Reached(snap[d])')
  <2>1. ASSUME NEW t \in AnyToken, Issued(t), t = snap'[d]
        PROVE  Issued(snap[d])' /\ (t # NoToken /\ Reached(t) => Reached(snap[d])')
    BY <1>1, <2>1 DEF Issued, Row, Reached, Upto
  <2> QED
    BY <1>0, <2>1 DEF Ordered
<1>3. /\ Issued(tok[d])'
      /\ (tok[d] # NoToken /\ Reached(tok[d]) => Reached(tok[d])')
  <2>1. ASSUME NEW t \in AnyToken, Issued(t), t = tok'[d]
        PROVE  Issued(tok[d])' /\ (t # NoToken /\ Reached(t) => Reached(tok[d])')
    BY <1>1, <2>1 DEF Issued, Row, Reached, Upto
  <2> QED
    BY <1>0, <2>1 DEF Ordered
<1> QED
  BY <1>0, <1>2, <1>3 DEF Ordered, Sound, Upto

\* A call that is over presents nothing.
LEMMA OrderedOver ==
  ASSUME Base, [Next]_vars, NEW c \in Calls, Ordered(c),
         pc'[c] \in {"idle", "done"}, tok'[c] = NoToken, snap'[c] \in {NoToken, snap[c]}
  PROVE  Ordered(c)'
<1>1. Issued(snap[c])'
  <2>1. ASSUME NEW t \in AnyToken, Issued(t), t = snap'[c]
        PROVE  Issued(snap[c])'
    BY <2>1, IssuedKept DEF Issued, Row
  <2>2. Issued(NoToken) /\ NoToken \in AnyToken /\ snap[c] \in AnyToken
    BY Types DEF Issued, Base, TypeOK
  <2> QED
    BY <2>1, <2>2 DEF Ordered
<1> QED
  BY <1>1 DEF Ordered, Issued, Inside

\* The call that steps keeps its tokens in order.
LEMMA OrderedAfter ==
  ASSUME Base, NEW c \in Calls, Ordered(c), CallStep(c), Next
  PROVE  Ordered(c)'
<1>0. /\ TypeOK /\ Sound(c) /\ Issued(store.tok) /\ store.tok \in AnyToken
      /\ snap[c] \in AnyToken
  BY DEF Base, TypeOK, Records
<1>1. CASE \E kind, t : Ends(c, kind, t)
  BY <1>0, <1>1, EndsSound, OrderedOver
<1>2. ASSUME NEW m \in ModesOf[c], Call(c, m)
      PROVE  Ordered(c)'
  <2>1. UNCHANGED <<tok, rows, store>> /\ pc[c] = "idle"
    BY <1>2 DEF Call, call, server, disk
  <2>2. \/ pc'[c] = "waitLock" /\ snap'[c] = store.tok /\ store.tok # NoToken
        \/ pc'[c] = "done" /\ snap'[c] = snap[c]
    BY <1>0, <1>2 DEF Call, TypeOK
  <2>3. store.tok # NoToken => Upto(store.tok, store.tok)
    <3>1. store.tok # NoToken => store.tok.gen \in Nat
      BY <1>0, TokenType
    <3> QED
      BY <3>1 DEF Upto
  <2> QED
    BY <1>0, <2>1, <2>2, <2>3 DEF Ordered, Issued, Row, Inside, Reached, Upto
<1>3. CASE EnterToRefresh(c)
  <2>1. pc'[c] = "present" /\ tok'[c] = store.tok /\ store' = store /\ rows' = rows
        /\ store.tok # NoToken /\ snap' = snap /\ pc[c] = "waitLock"
    BY <1>0, <1>3 DEF EnterToRefresh, Enter, TypeOK, disk, server
  <2>2. store.tok.gen \in Nat
    BY <1>0, <2>1, TokenType
  <2> QED
    BY <1>0, <2>1, <2>2 DEF Ordered, Issued, Row, Inside, Reached, Upto
<1>4. ASSUME UNCHANGED <<snap[c], tok[c]>>,
             pc[c] \in Inside \cup {"sleep", "recheck"},
             pc'[c] \in Inside \cup {"sleep", "recheck", "waitLock"}
      PROVE  Ordered(c)'
  <2>1. snap[c] # NoToken /\ tok[c] # NoToken /\ tok[c] \in AnyToken
    BY <1>0, <1>4 DEF Ordered, Sound, TypeOK
  <2>2. ASSUME NEW t \in AnyToken, Issued(t)
        PROVE  Issued(t)' /\ (t # NoToken /\ Reached(t) => Reached(t)')
    BY <2>2, IssuedKept, ReachedKept
  <2>3. Issued(snap[c])' /\ Reached(snap[c])'
    <3>1. ASSUME NEW t \in AnyToken, Issued(t), t = snap'[c], Reached(t),
                 t # NoToken
          PROVE  Issued(snap[c])' /\ Reached(snap[c])'
      BY <2>2, <3>1 DEF Issued, Row, Reached, Upto
    <3> QED
      BY <1>0, <1>4, <2>1, <3>1 DEF Ordered
  <2>4. Issued(tok[c])' /\ Reached(tok[c])'
    <3>1. ASSUME NEW t \in AnyToken, Issued(t), t = tok'[c], Reached(t),
                 t # NoToken
          PROVE  Issued(tok[c])' /\ Reached(tok[c])'
      BY <2>2, <3>1 DEF Issued, Row, Reached, Upto
    <3> QED
      BY <1>0, <1>4, <2>1, <3>1 DEF Ordered
  <2> QED
    BY <1>4, <2>1, <2>3, <2>4 DEF Ordered, Upto
<1>5. CASE Present(c) \/ TryNextId(c) \/ Condemned(c) \/ Accept(c)
  BY <1>0, <1>4, <1>5 DEF Present, TryNextId, Condemned, Accept, Goto, TypeOK,
     Inside, call
<1>6. CASE PresentFails(c) \/ Lose(c) \/ Cancel(c)
  BY <1>0, <1>4, <1>6 DEF PresentFails, Lose, Cancel, Goto, TypeOK, Inside
<1>7. CASE Transient(c) /\ pc' = [pc EXCEPT ![c] = "sleep"] /\ UNCHANGED call
  BY <1>0, <1>4, <1>7 DEF Transient, TypeOK, Inside, call
<1>8. CASE Retry(c) /\ pc' = [pc EXCEPT ![c] = "waitLock"] /\ UNCHANGED <<snap, tok>>
  BY <1>0, <1>4, <1>8 DEF Retry, TypeOK
<1>9. CASE Return(c)
  <2>1. /\ pc[c] = "done" /\ pc'[c] = "idle" /\ snap'[c] = NoToken
        /\ tok' = tok /\ rows' = rows
    BY <1>0, <1>9 DEF Return, Goto, TypeOK, server
  <2> QED
    BY <2>1 DEF Ordered, Issued, Row, Inside
<1>11. Transient(c) => \/ pc' = [pc EXCEPT ![c] = "sleep"] /\ UNCHANGED call
                       \/ \E kind, t : Ends(c, kind, t)
  BY DEF Transient
<1>12. Retry(c) => \/ pc' = [pc EXCEPT ![c] = "waitLock"] /\ UNCHANGED <<snap, tok>>
                   \/ \E kind, t : Ends(c, kind, t)
  BY DEF Retry
<1> QED
  BY <1>1, <1>2, <1>3, <1>5, <1>6, <1>7, <1>8, <1>9, Endings, <1>11, <1>12 DEF
     CallStep, Refresh

\* Every step keeps the tokens in order.
LEMMA OrderedNext ==
  ASSUME Base, [Next]_vars, NEW d \in Calls, Ordered(d)
  PROVE  Ordered(d)'
<1>1. ASSUME NEW c \in Calls, CallStep(c), Next
      PROVE  Ordered(d)'
  BY <1>1, OrderedAfter, OrderedStill, Bystander DEF Base
<1>2. ASSUME NEW p \in Procs, Crash(p)
      PROVE  Ordered(d)'
  BY <1>2, OrderedStill, OrderedOver, CrashKeeps
<1> QED
  BY <1>1, <1>2, Steps, OrderedStill, WorldKeeps DEF vars, call

\* t is not u, nor an older token of its family.
Ahead(t, u) == t # u /\ (t.family = u.family => t.gen > u.gen)

\* A token obtained no later than another one, and not that one, is older.
LEMMA UptoOlder ==
  ASSUME NEW t \in Tokens, NEW u \in Tokens, t # u, Upto(u, t)
  PROVE  Ahead(t, u)
  BY Bounds DEF Upto, Tokens, Families, Ahead

\* A rotation is ahead of everything up to the token it replaces.
LEMMA RotatedAhead ==
  ASSUME NEW t \in Tokens, NEW u \in Tokens, Upto(u, t)
  PROVE  Ahead([t EXCEPT !.gen = @ + 1], u)
<1>1. /\ [t EXCEPT !.gen = @ + 1].family = t.family
      /\ [t EXCEPT !.gen = @ + 1].gen = t.gen + 1
      /\ t.gen \in Nat /\ u.gen \in Nat /\ t.family \in Nat /\ u.family \in Nat
  BY Bounds DEF Tokens, Families
<1> DEFINE r == [t EXCEPT !.gen = @ + 1]
<1>2. r.family = t.family /\ r.gen = t.gen + 1
  BY <1>1
<1> HIDE DEF r
<1>3. Ahead(r, u)
  BY <1>1, <1>2 DEF Ahead, Upto
<1> QED
  BY <1>3 DEF r

\* The order of the tokens is transitive.
LEMMA UptoTransitive ==
  ASSUME NEW t \in Tokens, NEW u \in Tokens, NEW v \in Tokens, Upto(t, u),
         Upto(u, v)
  PROVE  Upto(t, v)
  BY Bounds DEF Upto, Tokens, Families

\* The call that steps hands out a later token than it started from.
LEMMA MovesOnAfter ==
  ASSUME Base, NEW c \in Calls, Ordered(c), MovesOn(c), CallStep(c), Next
  PROVE  MovesOn(c)'
<1>0. /\ TypeOK /\ Sound(c) /\ store.tok \in AnyToken /\ snap[c] \in AnyToken
      /\ tok[c] \in AnyToken
  BY DEF Base, TypeOK, Records
<1>1. ASSUME NEW kind, NEW t, Ends(c, kind, t),
             kind # "served" \/ (t # NoToken /\ Ahead(t, snap[c]))
      PROVE  MovesOn(c)'
  <2>1. mode' = mode /\ out'[c] = Outcome(mode[c], kind, t)
    BY <1>0, <1>1, EndsSound
  <2>2. CASE kind = "threw" \/ mode[c] = "valid" \/ kind # "served"
    BY <2>1, <2>2 DEF MovesOn, Outcome
  <2>3. CASE kind = "served" /\ mode[c] # "valid"
    <3>1. out'[c] = [kind |-> kind, tok |-> t]
      BY <2>1, <2>3 DEF Outcome
    <3>2. snap'[c] = snap[c]
      BY <1>0, <1>1, <2>3, <3>1 DEF Ends
    <3> QED
      BY <1>1, <2>3, <3>1, <3>2 DEF MovesOn, Ahead
  <2> QED
    BY <2>2, <2>3
<1>2. CASE EnterAndAdopt(c)
  <2>1. /\ pc[c] = "waitLock" /\ store.tok \notin {NoToken, snap[c]}
        /\ Ends(c, "served", store.tok)
    BY <1>2 DEF EnterAndAdopt, Enter
  <2>2. Upto(snap[c], store.tok) /\ snap[c] \in Tokens /\ store.tok \in Tokens
    BY <1>0, <2>1, TokenType DEF Ordered, Reached
  <2> QED
    BY <1>1, <2>1, <2>2, UptoOlder
<1>3. CASE WriteRotation(c) \/ WriteFails(c)
  <2>1. pc[c] = "write" /\ Ends(c, "served", Rotated(c))
    BY <1>3 DEF WriteRotation, WriteFails
  <2>2. Upto(snap[c], tok[c]) /\ snap[c] \in Tokens /\ tok[c] \in Tokens
    BY <1>0, <2>1, TokenType DEF Ordered, Sound, Inside
  <2>3. Rotated(c) # NoToken
    <3>1. Rotated(c) \in Tokens
      BY <1>0, <2>1, RotatedType DEF InFlight, Base
    <3> QED
      BY <3>1, ProviderAssumption
  <2> QED
    BY <1>1, <2>1, <2>2, <2>3, RotatedAhead DEF Rotated
<1>4. CASE RecheckAdopts(c)
  <2>1. /\ pc[c] = "recheck" /\ store.tok \notin {NoToken, tok[c]}
        /\ Ends(c, "served", store.tok)
    BY <1>4 DEF RecheckAdopts
  <2>2. /\ Upto(snap[c], tok[c]) /\ Upto(tok[c], store.tok)
        /\ snap[c] \in Tokens /\ tok[c] \in Tokens /\ store.tok \in Tokens
    BY <1>0, <2>1, TokenType DEF Ordered, Reached, Sound
  <2>3. store.tok # snap[c]
    BY <2>1, <2>2, Bounds DEF Upto, Tokens, Families
  <2>4. Ahead(store.tok, snap[c])
    BY <2>2, <2>3, UptoOlder, UptoTransitive
  <2> QED
    BY <1>1, <2>1, <2>4
<1>5. CASE EnterInVain(c) \/ Refused(c) \/ RecheckCondemns(c) \/ Busy(c)
           \/ (\E kind \in {"threw", "transient"} : Ends(c, kind, NoToken))
  <2>1. \E kind : kind # "served" /\ Ends(c, kind, NoToken)
    BY <1>5 DEF EnterInVain, Refused, RecheckCondemns, Busy
  <2> QED
    BY <1>1, <2>1
<1>6. ASSUME NEW m \in ModesOf[c], Call(c, m)
      PROVE  MovesOn(c)'
  <2>1. m \in Modes /\ mode'[c] = m
    BY <1>0, <1>6, ProviderAssumption DEF Call, TypeOK
  <2>2. out[c] = NoOutcome
    BY <1>0, <1>6 DEF Call, Sound
  <2>3. \/ out'[c] = out[c]
        \/ \E kind \in Outcomes \ {"served"} :
              out'[c] = Outcome(m, kind, NoToken)
    <3>1. ASSUME NEW kind, out' = [out EXCEPT ![c] = Outcome(m, kind, NoToken)]
          PROVE  out'[c] = Outcome(m, kind, NoToken)
      BY <1>0, <3>1 DEF TypeOK
    <3> QED
      BY <1>6, <3>1, CallFails
  <2>4. \A kind : kind # "served" /\ Outcome(m, kind, NoToken).kind = "served"
                  => m = "valid"
    BY DEF Outcome
  <2>5. out'[c].kind = "served" => m = "valid"
    BY <2>2, <2>3, <2>4 DEF NoOutcome
  <2> QED
    BY <2>1, <2>5 DEF MovesOn
<1>7. CASE pc'[c] # "done"
  <2>1. Sound(c)'
    BY SoundAfter
  <2> QED
    BY <1>7, <2>1 DEF Sound, MovesOn, NoOutcome
<1>8. EnterToRefresh(c) \/ Present(c) \/ TryNextId(c) \/ Condemned(c) \/ Accept(c) \/ Return(c)
      \/ PresentFails(c) \/ Lose(c) \/ Cancel(c)
      => pc'[c] # "done"
  BY <1>0 DEF EnterToRefresh, Present, TryNextId, Condemned, Accept, Return,
     PresentFails, Lose, Cancel, Goto, TypeOK
<1>9. Transient(c) \/ Retry(c) => \/ pc'[c] # "done"
                                  \/ \E kind \in {"threw", "transient"} :
                                        Ends(c, kind, NoToken)
  BY <1>0 DEF Transient, Retry, TypeOK
<1> QED
  BY <1>2, <1>3, <1>4, <1>5, <1>6, <1>7, <1>8, <1>9 DEF CallStep, Refresh

\* Every step keeps the tokens handed out ahead.
LEMMA MovesOnNext ==
  ASSUME Base, [Next]_vars, NEW d \in Calls, Ordered(d), MovesOn(d)
  PROVE  MovesOn(d)'
<1>0. TypeOK
  BY DEF Base
<1>1. CASE UNCHANGED <<out[d], mode[d], snap[d]>>
  BY <1>1 DEF MovesOn
<1>2. ASSUME NEW c \in Calls, CallStep(c), Next
      PROVE  MovesOn(d)'
  BY <1>0, <1>1, <1>2, MovesOnAfter, Bystander
<1>3. ASSUME NEW p \in Procs, Crash(p)
      PROVE  MovesOn(d)'
  BY <1>1, <1>3, CrashKeeps DEF MovesOn, NoOutcome
<1> QED
  BY <1>1, <1>2, <1>3, Steps, WorldKeeps DEF vars, call

\* The calls and their tokens.
OrderInv == \A c \in Calls : Ordered(c) /\ MovesOn(c)

\* A call whose token expired or was rejected is never served that token
\* again, nor an older one of its family.
THEOREM NeedyMovesOn == Spec => []NeedyCallMovesOn
<1>1. Init => OrderInv
  BY DEF Init, OrderInv, Ordered, MovesOn, Issued, Inside, NoOutcome
<1>2. Base /\ OrderInv /\ [Next]_vars => OrderInv'
  BY OrderedNext, MovesOnNext DEF OrderInv
<1>3. OrderInv => NeedyCallMovesOn
  BY DEF OrderInv, MovesOn, NeedyCallMovesOn
<1> QED
  BY <1>1, <1>2, <1>3, BaseInvariant, PTL DEF Spec

-----------------------------------------------------------------------------
(* The prompt retry.                                                       *)

\* The ids that c may present.
Known(c) == {KnownIds(c)[i] : i \in DOMAIN KnownIds(c)}

\* Presented under id, t is answered with a replay, or its family is dead.
Replayable(t, id) ==
    /\ t.gen + 1 = Row(t).head
    /\ Row(t).alive => Row(t).grace /\ Row(t).client = id

\* What a call inside presents.
Candid(c) ==
    /\ pc[c] \in Inside => ids[c] \in Seq(Known(c))
    /\ pc[c] = "await" /\ reply[c] = "rotate" => Replayable(tok[c], Head(ids[c]))

\* What the retry finds: the id whose answer was lost, and the token that can
\* be replayed under it, unless a newer one took its place.
Remembered(c) ==
    LET first == pending[ProcOf[c]] IN
    /\ first.tok = tok[c] /\ Replayable(tok[c], first.client)
    /\ store.tok = tok[c] => first.client \in Known(c)
    /\ store.tok \in {NoToken, tok[c]} \/ Newest(store.tok)

\* The call whose rotation was lost, on its way to the prompt retry.
Prompt(c) ==
    /\ holder \in {c, NoCall}
    /\ pc[c] \notin {"idle", "done"}
    /\ tok[c] # NoToken /\ Issued(tok[c])
    /\ pc[c] = "await" /\ attempt[c] = 1 =>
        reply[c] \in {"transient", "cancelled"} /\ Replayable(tok[c], Head(ids[c]))
    /\ pc[c] = "sleep" => attempt[c] = 1 /\ Remembered(c)
    /\ pc[c] = "waitLock" => attempt[c] = 2 /\ Remembered(c)
    /\ pc[c] = "present" => attempt[c] = 2 /\
         (Newest(tok[c]) \/ Replayable(tok[c], Head(ids[c])))
    /\ pc[c] = "await" /\ reply[c] = "mismatch" => Newest(tok[c])

\* The known ids are known, and there is one.
LEMMA KnownIdsKnown ==
  ASSUME TypeOK, NEW c \in Calls
  PROVE  KnownIds(c) \in Seq(Known(c)) /\ KnownIds(c) # <<>>
  BY KnownIdsType DEF Known

\* The id that waits for its answer is presented first.
LEMMA PendingFirst ==
  ASSUME TypeOK, NEW c \in Calls, pending[ProcOf[c]].tok = store.tok,
         pending[ProcOf[c]].client \in Known(c)
  PROVE  Head(Candidates(c)) = pending[ProcOf[c]].client
<1> DEFINE known == KnownIds(c)
           first == pending[ProcOf[c]].client
           places == {i \in DOMAIN known : known[i] = first}
           i == CHOOSE j \in places : TRUE
<1>1. places # {}
  BY DEF Known
<1>2. i \in 1 .. Len(known) /\ known \in Seq(Clients)
  BY <1>1, KnownIdsType
<1>3. Candidates(c) = <<first>> \o RemoveAt(known, i)
  BY <1>1 DEF Candidates
<1> HIDE DEF i, first, known
<1>4. RemoveAt(known, i) \in Seq(Clients)
  BY <1>2, RemoveAtType
<1>5. Head(<<first>> \o RemoveAt(known, i)) = first
  BY <1>4
<1> QED
  BY <1>3, <1>5 DEF first

\* A family rotates for its own client only, and opens its grace window.
LEMMA VerdictClient ==
  ASSUME NEW row \in FamilyRows, NEW gen \in Nat, NEW c,
         Verdict(row, gen, c) = "rotate"
  PROVE  c = row.client /\ Applied(row, "rotate").grace
  BY DEF Verdict, Applied, FamilyRows

\* A rotation under way can be replayed until it arrives.
LEMMA PresentReplayable ==
  ASSUME Base, NEW c \in Calls, Present(c), reply'[c] = "rotate"
  PROVE  Replayable(tok[c], Head(ids[c]))'
<1> DEFINE f == tok[c].family
           verdict == Verdict(rows[f], tok[c].gen, Head(ids[c]))
<1>1. /\ tok[c] # NoToken /\ f \in DOMAIN rows /\ tok[c].gen \in Nat
      /\ rows[f] \in FamilyRows
      /\ rows'[f] = Applied(rows[f], verdict)
      /\ verdict = "rotate" /\ rows[f].head < MaxGen
  BY ServerAnswers
<1>2. /\ rows'[f].head = tok[c].gen + 1 /\ rows'[f].client = Head(ids[c])
      /\ rows'[f].grace
  BY <1>1, VerdictType, VerdictClient, AppliedType
<1>3. tok' = tok /\ ids' = ids
  BY DEF Present
<1> QED
  BY <1>2, <1>3 DEF Replayable, Row

\* Outside a request, the grace window ends only with TakeOver and GraceEnds.
LEMMA WorldRows ==
  ASSUME Base, World, ~TakeOver, \A f \in DOMAIN rows : ~GraceEnds(f),
         NEW f \in DOMAIN rows
  PROVE  /\ rows'[f].head = rows[f].head /\ rows'[f].client = rows[f].client
         /\ rows'[f].alive => rows[f].alive
         /\ rows'[f].alive /\ rows[f].grace => rows'[f].grace
<1>0. TypeOK /\ rows[f] \in FamilyRows
  BY RowsType DEF Base, TypeOK
<1>1. CASE rows' = rows
  BY <1>1
<1>2. ASSUME NEW g \in DOMAIN rows, FamilyDies(g)
      PROVE  /\ rows'[f].head = rows[f].head /\ rows'[f].client = rows[f].client
             /\ rows'[f].alive => rows[f].alive
             /\ rows'[f].alive /\ rows[f].grace => rows'[f].grace
  <2>1. g # f => rows'[f] = rows[f]
    BY <1>0, <1>2 DEF FamilyDies
  <2>2. g = f => rows'[f] = [rows[f] EXCEPT !.alive = FALSE, !.grace = FALSE]
    BY <1>0, <1>2 DEF FamilyDies
  <2>3. g = f => /\ rows'[f].head = rows[f].head /\ rows'[f].client = rows[f].client
                 /\ ~rows'[f].alive
    BY <1>0, <2>2 DEF FamilyRows
  <2> QED
    BY <2>1, <2>3
<1>3. ASSUME NEW client, Login(client)
      PROVE  rows'[f] = rows[f]
  BY <1>0, <1>3 DEF Login, TypeOK
<1>4. SignOut \/ StoreSpoils \/ StoreHeals \/ OtherVerdict
      \/ (\E p \in Procs : CoolsDown(p) \/ SiblingEnters(p) \/ SiblingLeaves(p))
      => rows' = rows
  BY DEF SignOut, StoreSpoils, StoreHeals, OtherVerdict, CoolsDown,
     SiblingEnters, SiblingLeaves, server
<1> QED
  BY <1>1, <1>2, <1>3, <1>4 DEF World

\* Every step keeps the calls inside candid: they present known ids, and the
\* rotation they wait for can be replayed under the id they presented.
LEMMA CandidNext ==
  ASSUME Base, [Next]_vars, NEW d \in Calls, Candid(d)
  PROVE  Candid(d)'
<1>0. TypeOK /\ Sound(d) /\ Sound(d)'
  BY BaseNext DEF Base
<1>1. CASE pc'[d] \notin Inside
  BY <1>1 DEF Candid, Inside
<1>2. ASSUME pc[d] \in Inside,
             UNCHANGED <<store, pc[d], ids[d], reply[d], tok[d]>>,
             Row(tok[d])' = Row(tok[d])
      PROVE  Candid(d)'
  BY <1>2 DEF Candid, Known, KnownIds, Replayable
<1>3. ASSUME NEW c \in Calls, CallStep(c), c # d, pc'[d] \in Inside
      PROVE  Candid(d)'
  <2>1. UNCHANGED <<pc[d], ids[d], reply[d], tok[d]>>
    BY <1>0, <1>3, Bystander
  <2>2. holder = d /\ Sound(c)
    BY <1>0, <1>3, <2>1 DEF Sound, Base
  <2>3. UNCHANGED <<store, rows>>
    BY <1>0, <1>3, <2>2, OutsideKeeps, Types
  <2> QED
    BY <1>2, <1>3, <2>1, <2>3 DEF Row
<1>4. ASSUME CallStep(d), pc'[d] \in Inside, Next
      PROVE  Candid(d)'
  <2>1. CASE EnterToRefresh(d)
    <3>1. pc'[d] = "present" /\ ids'[d] = Candidates(d) /\ store' = store
      BY <1>0, <2>1 DEF EnterToRefresh, TypeOK, disk
    <3>2. Candidates(d) \in Seq(Known(d))
      BY <1>0, KnownIdsKnown, CandidatesKnown
    <3> QED
      BY <3>1, <3>2 DEF Candid, Known, KnownIds
  <2>2. CASE pc[d] \in Inside
    <3>1. store' = store
      <4>1. ~WriteRotation(d)
        BY <1>0, <1>4 DEF WriteRotation, Ends, TypeOK, Inside
      <4> QED
        BY <1>4, <4>1, CallStore
    <3>2. ids'[d] = ids[d] \/ (TryNextId(d) /\ ids'[d] = Tail(ids[d]) /\ ids[d] # <<>>)
      BY <1>0, <1>4, <2>2, Arrivals DEF EnterToRefresh, Enter, TryNextId,
         Goto, Present, PresentFails, Lose, Cancel, Accept, TypeOK, Sound,
         Inside, call
    <3>3. ids'[d] \in Seq(Known(d))
      BY <2>2, <3>2, HeadTailProperties DEF Candid
    <3>4. pc'[d] = "await" /\ reply'[d] = "rotate" => Present(d)
      BY <1>0, <1>4, Arrivals
    <3>5. Known(d)' = Known(d)
      BY <3>1 DEF Known, KnownIds
    <3> QED
      BY <3>3, <3>4, <3>5, PresentReplayable DEF Candid
  <2> QED
    BY <1>0, <1>4, <2>1, <2>2, Entered
<1>5. ASSUME NEW p \in Procs, Crash(p), pc'[d] \in Inside
      PROVE  Candid(d)'
  BY <1>2, <1>5, CrashKeeps DEF Inside, Row
<1>6. ASSUME World, pc'[d] \in Inside
      PROVE  Candid(d)'
  <2>1. UNCHANGED <<pc, call>> /\ holder = d /\ store' = store
    BY <1>0, <1>6, WorldKeeps DEF Sound
  <2>2. ids'[d] \in Seq(Known(d)')
    BY <1>6, <2>1 DEF Candid, Known, KnownIds, call
  <2>3. ASSUME pc[d] = "await", reply[d] = "rotate"
        PROVE  Replayable(tok[d], Head(ids[d]))'
    <3>1. ~TakeOver /\ \A f \in DOMAIN rows : ~GraceEnds(f)
      BY <2>1, <2>3, Types DEF TakeOver, GraceEnds
    <3>2. tok[d].family \in DOMAIN rows
      BY <1>0, <1>6, <2>1 DEF Sound, Base, Issued, Inside
    <3>3. Replayable(tok[d], Head(ids[d]))
      BY <2>3 DEF Candid
    <3> QED
      BY <1>6, <2>1, <3>1, <3>2, <3>3, WorldRows DEF Replayable, Row, call
  <2> QED
    BY <2>1, <2>2, <2>3 DEF Candid, call
<1>7. CASE UNCHANGED vars
  BY <1>7 DEF vars, disk, call, server, Candid, Known, KnownIds, Replayable,
     Row
<1> QED
  BY <1>1, <1>3, <1>4, <1>5, <1>6, <1>7, Steps

\* Another call leaves the retry prompt,
LEMMA PromptBystander ==
  ASSUME Base, NEW c \in Calls, NEW d \in Calls, d # c, CallStep(c), Prompt(d),
         lost = d, lost' = d
  PROVE  Prompt(d)'
<1>0. TypeOK /\ Sound(c) /\ holder \in {d, NoCall}
  BY DEF Base, Prompt
<1>1. pc[c] \notin Inside
  BY <1>0, Types DEF Sound
<1>2. ~EnterToRefresh(c)
  BY Types DEF EnterToRefresh
<1>3. UNCHANGED <<store, rows>>
  BY <1>1, CallStore, CallRows DEF WriteRotation, Present, Goto, Inside
<1>4. holder' = holder /\ pending' = pending
  BY <1>1, <1>2 DEF CallStep, Refresh, Call, EnterAndAdopt, EnterInVain,
     Present, TryNextId, Refused, Transient, Condemned, Accept, WriteRotation,
     WriteFails, RecheckAdopts, RecheckCondemns, Retry, Busy, Return,
     PresentFails, Lose, Cancel, Goto, Inside, memory
<1>5. UNCHANGED <<pc[d], tok[d], ids[d], reply[d], attempt[d]>>
  BY <1>0, Bystander
<1> QED
  BY <1>3, <1>4, <1>5 DEF Prompt, Issued, Row, Replayable, Remembered, Newest,
     Known, KnownIds

\* a crash does, unless it ends the call itself,
LEMMA PromptCrash ==
  ASSUME Base, NEW p \in Procs, NEW d \in Calls, Crash(p), Prompt(d), lost = d,
         lost' = d
  PROVE  Prompt(d)'
<1>0. TypeOK /\ holder \in {d, NoCall}
  BY DEF Base, Prompt
<1>1. ProcOf[d] # p
  BY Types DEF Crash
<1>2. holder' = holder /\ pending'[ProcOf[d]] = pending[ProcOf[d]]
  BY <1>0, <1>1, Types DEF Crash, TypeOK
<1>3. /\ UNCHANGED <<pc[d], tok[d], ids[d], reply[d], attempt[d]>>
      /\ UNCHANGED <<store, rows>>
  BY <1>1, CrashKeeps
<1> QED
  BY <1>2, <1>3 DEF Prompt, Issued, Row, Replayable, Remembered, Newest,
     Known, KnownIds

\* and so does the world.
LEMMA PromptWorld ==
  ASSUME Base, [Next]_vars, NEW d \in Calls, World, Prompt(d), lost = d,
         lost' = d
  PROVE  Prompt(d)'
<1>0. /\ TypeOK /\ holder \in {d, NoCall} /\ store.tok \in AnyToken
      /\ tok[d] \in Tokens /\ Issued(store.tok)
  BY TokenType DEF Base, Prompt, TypeOK, Records
<1>1. /\ ~TakeOver /\ \A f \in DOMAIN rows : ~GraceEnds(f)
      /\ \A p \in Procs : ~SiblingEnters(p)
  BY <1>0, Types DEF TakeOver, GraceEnds, SiblingEnters
<1>2. UNCHANGED <<pc, call>> /\ holder' \in {d, NoCall} /\ pending' = pending
  BY <1>0, <1>1, Types DEF World, SignOut, StoreSpoils, StoreHeals,
     OtherVerdict, FamilyDies, CoolsDown, SiblingLeaves, Login, Leaves, memory
<1>3. tok[d] # NoToken /\ Issued(tok[d]) /\ tok[d].family \in DOMAIN rows
  BY DEF Prompt, Issued
<1>4. Issued(tok[d])'
  BY <1>0, <1>2, <1>3, IssuedKept DEF AnyToken, Issued, Row, call
<1>5. ASSUME NEW id, Replayable(tok[d], id)
      PROVE  Replayable(tok[d], id)'
  BY <1>1, <1>2, <1>3, <1>5, WorldRows DEF Replayable, Row, call
<1>6. Newest(tok[d]) => Newest(tok[d])'
  BY <1>1, <1>2, <1>3, WorldRows DEF Newest, Row, call
<1>7. Remembered(d) => Remembered(d)'
  <2> SUFFICES ASSUME Remembered(d)
               PROVE  Remembered(d)'
    OBVIOUS
  <2>1. /\ pending'[ProcOf[d]].tok = tok'[d]
        /\ Replayable(tok[d], pending[ProcOf[d]].client)'
    BY <1>2, <1>5 DEF Remembered, call, Replayable, Row
  <2>2. CASE store' = store
    <3>1. Newest(store.tok) => Newest(store.tok)' \/ store.tok = NoToken
      BY <1>0, <1>1, <2>2, WorldRows DEF Newest, Row, Issued
    <3> QED
      BY <1>2, <2>1, <2>2, <3>1 DEF Remembered, Known, KnownIds, call
  <2>3. CASE SignOut
    <3>1. store'.tok = NoToken
      BY <2>3 DEF SignOut, NoRecord
    <3> QED
      BY <1>2, <1>3, <2>1, <3>1 DEF Remembered, call
  <2>4. ASSUME NEW client \in Clients, Login(client)
        PROVE  Remembered(d)'
    <3>1. store'.tok.family = Len(rows) + 1 /\ store'.tok # NoToken
      <4>1. store'.tok = [family |-> Len(rows) + 1, gen |-> 0]
        BY <2>4 DEF Login
      <4>2. store'.tok \in Tokens
        BY <1>0, <2>4, <4>1, Bounds DEF Login, TypeOK, Tokens, Families
      <4> QED
        BY <4>1, <4>2, ProviderAssumption
    <3>2. store'.tok # tok'[d]
      BY <1>0, <1>2, <1>3, <3>1 DEF call, TypeOK
    <3>3. Newest(store.tok)'
      BY <3>1, StoreNewest, <1>0, <2>4 DEF Issued, TypeOK
    <3> QED
      BY <2>1, <3>2, <3>3 DEF Remembered
  <2> QED
    BY <1>1, <2>2, <2>3, <2>4 DEF World, StoreSpoils, StoreHeals,
       OtherVerdict, FamilyDies, CoolsDown, SiblingLeaves, disk
<1> QED
  BY <1>2, <1>3, <1>4, <1>5, <1>6, <1>7 DEF Prompt, call

\* A rotation that is lost can be replayed.
LEMMA PromptBegins ==
  ASSUME Base, NEW c \in Calls, Candid(c), Lose(c), reply[c] = "rotate",
         attempt[c] = 1
  PROVE  Prompt(c)'
<1>0. /\ TypeOK /\ Sound(c) /\ Issued(store.tok) /\ pc[c] = "await"
      /\ UNCHANGED <<holder, pc, tok, ids, rows, attempt>>
      /\ reply'[c] = "transient"
  BY DEF Base, Lose, TypeOK, server
<1>1. holder = c /\ tok[c] = store.tok /\ tok[c] # NoToken
  BY <1>0 DEF Sound, Inside
<1>2. Replayable(tok[c], Head(ids[c]))
  BY <1>0 DEF Candid
<1> QED
  BY <1>0, <1>1, <1>2 DEF Prompt, Replayable, Row, Issued

\* The steps of the call itself, up to the answer to its retry.
LEMMA PromptAfter ==
  ASSUME Base, Next, NEW c \in Calls, Candid(c), CallStep(c), Prompt(c),
         lost = c, lost' = c
  PROVE  Prompt(c)'
<1>0. /\ TypeOK /\ Sound(c) /\ Issued(store.tok) /\ tok[c] # NoToken
      /\ Issued(tok[c])
      /\ holder \in {c, NoCall}
  BY DEF Base, Prompt
<1>1. \A kind, t : ~Ends(c, kind, t)
  BY <1>0, EndsSound
<1>2. CASE EnterToRefresh(c)
  <2>1. /\ pc[c] = "waitLock" /\ holder' = c /\ pc'[c] = "present"
        /\ tok'[c] = store.tok
        /\ ids'[c] = Candidates(c) /\ store.tok # NoToken /\ rows' = rows
        /\ attempt' = attempt
    BY <1>0, <1>2 DEF EnterToRefresh, Enter, TypeOK, server
  <2>2. attempt[c] = 2 /\ Remembered(c)
    BY <2>1 DEF Prompt
  <2>3. Newest(store.tok) \/ Replayable(store.tok, Head(Candidates(c)))
    BY <1>0, <2>1, <2>2, PendingFirst DEF Remembered
  <2> QED
    BY <1>0, <2>1, <2>2, <2>3 DEF Prompt, Issued, Row, Newest, Replayable
<1>3. CASE Present(c)
  <2> DEFINE f == tok[c].family
             verdict == Verdict(rows[f], tok[c].gen, Head(ids[c]))
  <2>1. /\ f \in DOMAIN rows /\ tok[c].gen \in Nat /\ rows[f] \in FamilyRows
        /\ verdict \in Verdicts
        /\ rows'[f] = Applied(rows[f], verdict)
        /\ reply'[c] = verdict
    BY <1>3, ServerAnswers
  <2>2. /\ pc[c] = "present" /\ pc'[c] = "await"
        /\ UNCHANGED <<holder, tok, ids, attempt>>
    BY <1>0, <1>3 DEF Present, Goto, TypeOK
  <2>3. attempt[c] = 2
    BY <2>2 DEF Prompt
  <2>4. verdict = "mismatch" => Newest(tok[c])'
    BY <2>1, <2>2, VerdictType, AppliedType DEF Newest, Row
  <2>5. Issued(tok[c])'
    BY <1>0, <2>1, <2>2, IssuedKept DEF Issued, Row, TypeOK
  <2> QED
    BY <1>0, <2>1, <2>2, <2>3, <2>4, <2>5 DEF Prompt
<1>4. CASE PresentFails(c) \/ Lose(c) \/ Cancel(c)
  <2>1. /\ pc[c] \in {"present", "await"} /\ pc'[c] = "await"
        /\ reply'[c] \in {"transient", "cancelled"}
        /\ UNCHANGED <<holder, tok, ids, attempt, rows>>
    BY <1>0, <1>4 DEF PresentFails, Lose, Cancel, Goto, TypeOK, server
  <2>2. attempt[c] = 1 => Replayable(tok[c], Head(ids[c]))
    BY <2>1 DEF Prompt
  <2> QED
    BY <1>0, <2>1, <2>2 DEF Prompt, Issued, Row, Replayable
<1>5. CASE TryNextId(c)
  <2>1. /\ pc[c] = "await" /\ reply[c] = "mismatch" /\ pc'[c] = "present"
        /\ UNCHANGED <<holder, tok, attempt, rows>> /\ attempt[c] \in {1, 2}
    BY <1>0, <1>5 DEF TryNextId, Goto, TypeOK, server
  <2>2. attempt[c] = 2 /\ Newest(tok[c])
    BY <2>1 DEF Prompt
  <2> QED
    BY <1>0, <2>1, <2>2 DEF Prompt, Issued, Row, Newest
<1>6. CASE Transient(c)
  <2>1. /\ pc[c] = "await" /\ pc'[c] = "sleep" /\ attempt[c] = 1
        /\ holder' = NoCall
        /\ UNCHANGED <<tok, ids, reply, attempt, rows, store>>
        /\ pending'[ProcOf[c]] = [tok |-> tok[c], client |-> Head(ids[c])]
    BY <1>0, <1>1, <1>6, Types DEF Transient, TypeOK, RetriesLeft, call,
       server, disk, Leaves
  <2>2. /\ Replayable(tok[c], Head(ids[c])) /\ tok[c] = store.tok
        /\ ids[c] \in Seq(Known(c)) /\ ids[c] # <<>>
    BY <1>0, <2>1 DEF Prompt, Candid, Sound, Inside
  <2>3. Head(ids[c]) \in Known(c)
    BY <2>2
  <2>4. Remembered(c)'
    BY <2>1, <2>2, <2>3 DEF Remembered, Replayable, Row, Known, KnownIds
  <2> QED
    BY <1>0, <2>1, <2>4 DEF Prompt, Issued, Row
<1>7. CASE Retry(c)
  <2>1. /\ pc[c] = "sleep" /\ pc'[c] = "waitLock"
        /\ attempt'[c] = attempt[c] + 1
        /\ UNCHANGED <<holder, tok, ids, pending, rows, store>>
    BY <1>0, <1>1, <1>7 DEF Retry, TypeOK, memory, server, disk
  <2>2. attempt[c] = 1 /\ Remembered(c)
    BY <2>1 DEF Prompt
  <2>3. Remembered(c)'
    BY <2>1, <2>2 DEF Remembered, Replayable, Row, Newest, Known, KnownIds
  <2> QED
    BY <1>0, <2>1, <2>2, <2>3 DEF Prompt, Issued, Row
<1>8. CASE Condemned(c) \/ Accept(c)
  <2>1. /\ pc'[c] \in {"recheck", "write"} /\ holder' \in {holder, NoCall}
        /\ UNCHANGED <<tok, rows>>
    BY <1>0, <1>8 DEF Condemned, Accept, Goto, TypeOK, call, server, Leaves
  <2> QED
    BY <1>0, <2>1 DEF Prompt, Issued, Row
<1>9. ~Return(c) /\ ~ \E m \in ModesOf[c] : Call(c, m)
  BY DEF Prompt, Return, Call, Goto
<1>10. ~ (EnterAndAdopt(c) \/ EnterInVain(c) \/ Refused(c) \/ WriteRotation(c) \/ WriteFails(c)
       \/ RecheckAdopts(c) \/ RecheckCondemns(c) \/ Busy(c))
  BY <1>1 DEF EnterAndAdopt, EnterInVain, Refused, WriteRotation, WriteFails,
     RecheckAdopts, RecheckCondemns, Busy
<1> QED
  BY <1>2, <1>3, <1>4, <1>5, <1>6, <1>7, <1>8, <1>9, <1>10 DEF CallStep,
     Refresh

\* The calls inside, and the one that retries.
PromptInv ==
    /\ \A c \in Calls : Candid(c)
    /\ lost # NoCall => Prompt(lost)

\* Every step keeps the retry absorbable.
LEMMA PromptNext ==
  ASSUME Base, PromptInv, [Next]_vars
  PROVE  PromptInv'
<1>0. /\ TypeOK /\ TypeOK' /\ lost \in Calls \cup {NoCall}
      /\ lost' \in Calls \cup {NoCall}
  BY TypeNext DEF Base, TypeOK
<1>1. ASSUME NEW d \in Calls, lost' = d
      PROVE  Prompt(d)'
  <2>0. Candid(d) /\ (lost = d => Prompt(d))
    BY Types DEF PromptInv
  <2>1. ASSUME NEW c \in Calls, CallStep(c), Next
        PROVE  Prompt(d)'
    <3>1. lost = d \/ (d = c /\ Lose(c) /\ reply[c] = "rotate" /\ attempt[c] = 1)
      <4>1. ~Lose(c) => lost' \in {lost, NoCall}
        <5>1. (\E kind, t : Ends(c, kind, t)) => lost' \in {lost, NoCall}
          BY DEF Ends
                <5>3. Transient(c) \/ Retry(c) => lost' = lost \/ \E kind, t : Ends(c, kind, t)
          BY DEF Transient, Retry
        <5>4. EnterToRefresh(c) => lost' \in {lost, NoCall}
          BY DEF EnterToRefresh
        <5> QED
          BY <2>1, <5>1, Endings, <5>3, <5>4 DEF CallStep, Refresh, Call,
             Present, TryNextId, Condemned, Accept, Return, PresentFails,
             Cancel, history
      <4>2. Lose(c) => lost' = lost \/ (lost' = c /\ reply[c] = "rotate" /\ attempt[c] = 1)
        BY DEF Lose
      <4> QED
        BY <1>1, <4>1, <4>2, Types
    <3> QED
      BY <1>1, <2>0, <2>1, <3>1, PromptBegins, PromptAfter, PromptBystander
  <2>2. ASSUME NEW p \in Procs, Crash(p)
        PROVE  Prompt(d)'
    <3>1. lost = d
      BY <1>1, <2>2, Types DEF Crash
    <3> QED
      BY <1>1, <2>0, <2>2, <3>1, PromptCrash
  <2>3. CASE World
    <3>1. lost = d
      BY <1>1, <2>3, Types DEF World, TakeOver, SignOut, StoreSpoils,
         StoreHeals, OtherVerdict, GraceEnds, FamilyDies, CoolsDown,
         SiblingEnters, SiblingLeaves, Login, history
    <3> QED
      BY <1>1, <2>0, <2>3, <3>1, PromptWorld
  <2>4. CASE UNCHANGED vars
    BY <1>1, <2>0, <2>4 DEF vars, disk, memory, call, server, history, Prompt,
       Issued, Row, Replayable, Remembered, Newest, Known, KnownIds
  <2> QED
    BY <2>1, <2>2, <2>3, <2>4, Steps
<1>2. \A c \in Calls : Candid(c)'
  BY CandidNext DEF PromptInv
<1>3. lost' # NoCall => Prompt(lost)'
  <2>1. ASSUME NEW d \in Calls, lost' = d, Prompt(d)'
        PROVE  Prompt(lost)'
    BY <2>1 DEF Prompt, Issued, Row, Replayable, Remembered, Newest, Known,
       KnownIds
  <2> QED
    BY <1>0, <1>1, <2>1
<1> QED
  BY <1>2, <1>3 DEF PromptInv

\* The retry is absorbable always.
LEMMA PromptInvariant == Spec => []PromptInv
<1>1. Init => PromptInv
  BY DEF Init, PromptInv, Candid, Inside
<1>2. Base /\ PromptInv /\ [Next]_vars => PromptInv'
  BY PromptNext
<1> QED
  BY <1>1, <1>2, BaseInvariant, PTL DEF Spec

\* Only the call inside changes what the server revoked.
LEMMA PromptAbsorbs ==
  ASSUME Base, PromptInv, [Next]_vars, NEW d \in Calls, lost = d,
         pc[d] = "present"
  PROVE  revoked' = revoked
<1>0. TypeOK /\ Prompt(d) /\ holder = d
  BY Types DEF Base, PromptInv, Sound, Inside
<1>1. CASE Present(d)
  <2> DEFINE f == tok[d].family
             verdict == Verdict(rows[f], tok[d].gen, Head(ids[d]))
  <2>1. f \in DOMAIN rows /\ tok[d].gen \in Nat /\ rows[f] \in FamilyRows
    BY <1>1, ServerAnswers
  <2>2. Newest(tok[d]) \/ Replayable(tok[d], Head(ids[d]))
    BY <1>0 DEF Prompt
  <2>3. verdict # "reuse"
    BY <2>1, <2>2 DEF Verdict, Newest, Replayable, Row, FamilyRows
  <2> QED
    BY <1>1, <2>3 DEF Present
<1>2. ASSUME NEW c \in Calls, Present(c)
      PROVE  c = d
  BY <1>0, <1>2 DEF Present, Goto, Base, Sound, Inside
<1>3. CASE \A c \in Calls : ~Present(c)
  BY <1>3, Steps, CallRows, WorldServer DEF Crash, server, vars
<1> QED
  BY <1>1, <1>2, <1>3

\* The prompt retry after a lost rotation never has its family revoked for
\* reuse.
THEOREM RetryAbsorbed == Spec => PromptRetryAbsorbed
<1>1. Base /\ PromptInv /\ [Next]_vars
      => (\A c \in Calls : lost = c /\ pc[c] = "present" => revoked' = revoked)
  BY PromptAbsorbs
<1> QED
  BY <1>1, BaseInvariant, PromptInvariant, PTL DEF Spec, PromptRetryAbsorbed

-----------------------------------------------------------------------------
(* The events.                                                             *)

\* Family f is dead, and nothing that would renew it is under way.
Settled(f) ==
    /\ f \in DOMAIN rows /\ ~rows[f].alive
    /\ store.tok.family = f => \A d \in Calls : ~InFlight(d)

\* A family that was told dead is settled, and a process that told so of the
\* family of the store remembers it.
EventInv ==
    /\ readable /\ store.tok # NoToken
    /\ \A c \in Calls :
        (pc[c] = "await" /\ IsVerdict(reply[c])) \/ pc[c] = "recheck"
        => Settled(tok[c].family)
    /\ \A p \in Procs, f \in Families :
        /\ events[p][f] <= 1
        /\ events[p][f] > 0 =>
            Settled(f) /\ (store.tok.family = f => dead[p] = store.tok)

\* The store is read and holds a sign-in.
LEMMA StoreKept ==
  ASSUME {"unreadable", "signOut"} \cap Disturbances = {},
         Base, [Next]_vars, readable, store.tok # NoToken
  PROVE  readable' /\ store'.tok # NoToken
<1>0. TypeOK /\ Base'
  BY BaseNext DEF Base
<1>1. ASSUME NEW c \in Calls, CallStep(c)
      PROVE  readable' /\ store'.tok # NoToken
  <2>1. readable' = readable
    BY <1>1 DEF disk, CallStep, Refresh, Call, EnterAndAdopt, EnterInVain,
       EnterToRefresh, Present, TryNextId, Refused, Transient, Condemned,
       Accept, WriteRotation, WriteFails, RecheckAdopts, RecheckCondemns,
       Retry, Busy, Return, PresentFails, Lose, Cancel
  <2>2. WriteRotation(c) => store'.tok = Rotated(c) /\ Rotated(c) \in Tokens
    BY <1>0, RotatedType DEF WriteRotation, Base, InFlight
  <2> QED
    BY <1>1, <2>1, <2>2, CallStore, ProviderAssumption
<1>2. ASSUME NEW client \in Clients, Login(client)
      PROVE  readable' /\ store'.tok # NoToken
  <2>1. [family |-> Len(rows) + 1, gen |-> 0] \in Tokens
    BY <1>0, <1>2, Bounds DEF Login, TypeOK, Tokens, Families
  <2> QED
    BY <1>2, <2>1, ProviderAssumption DEF Login
<1>3. ~SignOut /\ ~StoreSpoils
  BY DEF SignOut, StoreSpoils, Disturb
<1>4. CASE UNCHANGED <<store, readable>> \/ (StoreHeals /\ UNCHANGED store)
  BY <1>4 DEF StoreHeals
<1> QED
  BY <1>1, <1>2, <1>3, <1>4, Steps DEF World, TakeOver, StoreHeals,
     OtherVerdict, GraceEnds, FamilyDies, CoolsDown, SiblingEnters,
     SiblingLeaves, Crash, disk, vars

\* No call renews a dead family.
LEMMA SettledKept ==
  ASSUME {"unreadable", "signOut"} \cap Disturbances = {},
         Base, [Next]_vars, store.tok # NoToken, NEW f, Settled(f)
  PROVE  Settled(f)'
<1>0. TypeOK /\ store.tok \in Tokens
  BY TokenType DEF Base, TypeOK, Records
<1>1. f \in DOMAIN rows' /\ ~rows'[f].alive
  BY RowsGrow DEF Settled
<1>2. ASSUME NEW c \in Calls, CallStep(c), NEW d \in Calls,
             store'.tok.family = f, InFlight(d)'
      PROVE  FALSE
  <2>1. store.tok.family = f
    BY <1>2, CallStore, RotationMoves
  <2>2. ~InFlight(d)
    BY <2>1 DEF Settled
  <2>3. d = c
    BY <1>0, <1>2, <2>2, Bystander DEF InFlight, Committed
  <2>4. Present(c)
    BY <1>2, <2>2, <2>3, FlightBegins
  <2> DEFINE verdict == Verdict(rows[tok[c].family], tok[c].gen, Head(ids[c]))
  <2>5. /\ reply'[c] = verdict /\ rows[tok[c].family] \in FamilyRows
        /\ pc'[c] = "await"
    BY <1>0, <2>4, ServerAnswers DEF Present, Goto, TypeOK
  <2>6. tok[c].family = f
    BY <2>1, <2>4 DEF Present, Goto, Base, Sound, Inside
  <2>7. verdict = "invalid"
    BY <2>6 DEF Settled, Verdict
  <2> QED
    BY <1>2, <2>3, <2>5, <2>7 DEF InFlight, Committed
<1>3. ASSUME NEW p \in Procs, Crash(p), NEW d \in Calls, store'.tok.family = f,
             InFlight(d)'
      PROVE  FALSE
  BY <1>3, CrashKeeps DEF InFlight, Committed, Settled
<1>4. ASSUME World \/ UNCHANGED vars, NEW d \in Calls, store'.tok.family = f,
             InFlight(d)'
      PROVE  FALSE
  <2>1. InFlight(d)
    BY <1>4, WorldKeeps DEF InFlight, Committed, call, vars
  <2>2. \A client : ~Login(client)
    BY <1>0, <1>4 DEF Login, Settled, TypeOK
  <2>3. ~SignOut
    BY DEF SignOut, Disturb
  <2>4. store' = store
    BY <1>4, <2>2, <2>3 DEF World, TakeOver, StoreSpoils, StoreHeals,
       OtherVerdict, GraceEnds, FamilyDies, CoolsDown, SiblingEnters,
       SiblingLeaves, disk, vars
  <2> QED
    BY <1>4, <2>1, <2>4 DEF Settled
<1>5. store'.tok.family = f => \A d \in Calls : ~InFlight(d)'
  BY <1>2, <1>3, <1>4, Steps
<1> QED
  BY <1>1, <1>5 DEF Settled

\* Once a call knows its verdict, nothing renews the family.
LEMMA DoomedSettled ==
  ASSUME {"unreadable", "signOut"} \cap Disturbances = {},
         Base, Condemnations, EventInv, [Next]_vars, NEW d \in Calls,
         (pc[d] = "await" /\ IsVerdict(reply[d]))' \/ pc'[d] = "recheck"
  PROVE  Settled(tok[d].family)'
<1>0. TypeOK /\ store.tok # NoToken
  BY DEF Base, EventInv
<1>1. ASSUME Settled(tok[d].family), tok'[d] = tok[d]
      PROVE  Settled(tok[d].family)'
  <2>1. ASSUME NEW f, f = tok[d].family
        PROVE  Settled(tok[d].family)'
    BY <1>0, <1>1, <2>1, SettledKept DEF Settled, InFlight, Committed
  <2> QED
    BY <2>1
<1>2. CASE UNCHANGED <<pc[d], reply[d], tok[d]>>
  BY <1>1, <1>2 DEF EventInv
<1>3. ASSUME NEW c \in Calls, CallStep(c)
      PROVE  Settled(tok[d].family)'
  <2>1. CASE c # d
    BY <1>0, <1>2, <1>3, <2>1, Bystander
  <2>2. CASE c = d
    <3>1. Condemned(d) \/ Present(d)
      BY <1>0, <1>3, <2>2, Arrivals DEF IsVerdict
    <3>2. CASE Condemned(d)
      BY <1>1, <3>2 DEF Condemned, Goto, EventInv, call
    <3>3. CASE Present(d)
      <4>1. /\ pc'[d] = "await" /\ tok[d] = store.tok
            /\ UNCHANGED <<tok, store>> /\ holder = d
        BY <1>0, <3>3 DEF Present, Goto, TypeOK, Base, Sound, Inside, disk
      <4>2. Doomed(d)'
        BY DoomedNext DEF Condemnations
      <4>3. tok[d].family \in DOMAIN rows' /\ ~rows'[tok[d].family].alive
        BY <1>0, <4>1, <4>2 DEF Doomed, Gone, Issued, Alive, Row
      <4>4. ASSUME NEW e \in Calls, InFlight(e)'
            PROVE  FALSE
        <5>1. CASE e = d
          BY <4>1, <4>4, <5>1 DEF InFlight, Committed, IsVerdict
        <5>2. CASE e # d
          BY <1>0, <1>3, <2>2, <4>1, <4>4, <5>2, Bystander DEF InFlight,
             Committed, Base, Sound, Inside
        <5> QED
          BY <5>1, <5>2
      <4> QED
        BY <4>1, <4>3, <4>4 DEF Settled
    <3> QED
      BY <3>1, <3>2, <3>3
  <2> QED
    BY <2>1, <2>2
<1>4. ASSUME NEW p \in Procs, Crash(p)
      PROVE  Settled(tok[d].family)'
  BY <1>2, <1>4, CrashKeeps
<1> QED
  BY <1>2, <1>3, <1>4, Steps, WorldKeeps DEF vars, call

\* Every step keeps the events single.
LEMMA EventsNext ==
  ASSUME {"unreadable", "signOut"} \cap Disturbances = {},
         Base, Condemnations, EventInv, [Next]_vars, NEW p \in Procs, NEW f \in Families
  PROVE  /\ events'[p][f] <= 1
         /\ events'[p][f] > 0 =>
            Settled(f)' /\ (store'.tok.family = f => dead'[p] = store'.tok)
<1>0. /\ TypeOK /\ store.tok # NoToken /\ readable /\ store.tok \in Tokens
      /\ events[p] \in [Families -> Nat] /\ events[p][f] \in Nat
      /\ dead \in [Procs -> AnyToken]
      /\ events \in [Procs -> [Families -> Nat]]
  BY TokenType DEF Base, EventInv, TypeOK, Records
<1>1. ASSUME events[p][f] > 0
      PROVE  Settled(f)'
  BY <1>0, <1>1, SettledKept DEF EventInv
<1>2. ASSUME events[p][f] > 0, store'.tok.family = f
      PROVE  store' = store
  <2>1. ~ \E client : Login(client)
    BY <1>2, <1>0 DEF EventInv, Settled, Login, TypeOK
  <2>2. ASSUME NEW c \in Calls
        PROVE  ~WriteRotation(c)
    BY <1>2, RotationMoves DEF EventInv, Settled
  <2>3. ~SignOut
    BY DEF SignOut, Disturb
  <2> QED
    BY <2>1, <2>2, <2>3, Steps, CallStore DEF World, TakeOver, StoreSpoils,
       StoreHeals, OtherVerdict, GraceEnds, FamilyDies, CoolsDown,
       SiblingEnters, SiblingLeaves, Crash, disk, vars
<1>3. ASSUME events'[p][f] = events[p][f],
             dead'[p] = dead[p] \/ (dead[p] = store.tok /\ dead'[p] = store.tok)
                \/ dead[p] # store.tok
      PROVE  /\ events'[p][f] <= 1
             /\ events'[p][f] > 0 =>
                Settled(f)' /\ (store'.tok.family = f => dead'[p] = store'.tok)
  BY <1>1, <1>2, <1>3 DEF EventInv
<1>4. ASSUME NEW c \in Calls, RecheckCondemns(c), ~VerdictStands(ProcOf[c]),
             p = ProcOf[c], f = tok[c].family
      PROVE  /\ events'[p][f] <= 1
             /\ events'[p][f] > 0 =>
                Settled(f)' /\ (store'.tok.family = f => dead'[p] = store'.tok)
  <2>1. /\ pc[c] = "recheck" /\ store.tok = tok[c] /\ store' = store
        /\ dead[p] = NoToken
        /\ dead'[p] = tok[c] /\ events'[p][f] = events[p][f] + 1
    BY <1>0, <1>4 DEF RecheckCondemns, VerdictStands, Base, Sound
  <2>2. events[p][f] = 0
    BY <1>0, <1>4, <2>1 DEF EventInv
  <2>3. Settled(f)'
    BY <1>0, <1>4, <2>1, SettledKept DEF EventInv
  <2> QED
    BY <2>1, <2>2, <2>3
<1>5. ASSUME NEW c \in Calls, CallStep(c)
      PROVE  \/ events'[p][f] = events[p][f] /\ dead'[p] = dead[p]
             \/ events'[p][f] = events[p][f] /\ dead[p] = store.tok /\ dead'[p] = store.tok
             \/ events'[p][f] = events[p][f] /\ dead[p] # store.tok
             \/ RecheckCondemns(c) /\ ~VerdictStands(ProcOf[c])
                /\ p = ProcOf[c] /\ f = tok[c].family
  <2>1. CASE \E m \in ModesOf[c] : Call(c, m)
    <3>1. events' = events
      BY <2>1 DEF Call
    <3>2. dead[p] = store.tok => dead'[p] = store.tok
      BY <1>0, <2>1 DEF Call
    <3> QED
      BY <3>1, <3>2
  <2>2. CASE RecheckCondemns(c)
    <3>1. CASE VerdictStands(ProcOf[c])
      BY <2>2, <3>1 DEF RecheckCondemns
    <3>2. CASE ~VerdictStands(ProcOf[c])
      <4>1. /\ dead' = [dead EXCEPT ![ProcOf[c]] = tok[c]]
            /\ events' = [events EXCEPT ![ProcOf[c]][tok[c].family] = @ + 1]
        BY <2>2, <3>2 DEF RecheckCondemns
      <4>2. p # ProcOf[c] => dead'[p] = dead[p] /\ events'[p] = events[p]
        BY <1>0, <4>1
      <4>3. CASE p = ProcOf[c] /\ f # tok[c].family
        <5>1. events'[p] = [events[p] EXCEPT ![tok[c].family] = events[p][tok[c].family] + 1]
          BY <1>0, <4>1, <4>3
        <5>2. events'[p][f] = events[p][f]
          BY <1>0, <4>3, <5>1
        <5>3. dead[p] = NoToken
          BY <3>2, <4>3 DEF VerdictStands
        <5> QED
          BY <1>0, <5>2, <5>3
      <4> QED
        BY <2>2, <3>2, <4>2, <4>3
    <3> QED
      BY <3>1, <3>2
  <2> QED
    BY <1>5, <2>1, <2>2 DEF CallStep, Refresh, EnterAndAdopt, EnterInVain,
       EnterToRefresh, Present, TryNextId, Refused, Transient, Condemned,
       Accept, WriteRotation, WriteFails, RecheckAdopts, Retry, Busy, Return,
       PresentFails, Lose, Cancel, memory
<1>6. ASSUME NEW q \in Procs, Crash(q)
      PROVE  /\ events'[p][f] <= 1
             /\ events'[p][f] > 0 =>
                Settled(f)' /\ (store'.tok.family = f => dead'[p] = store'.tok)
  <2>1. q = p => events'[p][f] = 0
    BY <1>0, <1>6 DEF Crash
  <2>2. q # p => events'[p][f] = events[p][f] /\ dead'[p] = dead[p]
    BY <1>0, <1>6 DEF Crash
  <2> QED
    BY <1>3, <2>1, <2>2
<1>7. World \/ UNCHANGED vars => UNCHANGED <<events, dead>>
  BY DEF World, TakeOver, SignOut, StoreSpoils, StoreHeals, OtherVerdict,
     GraceEnds, FamilyDies, CoolsDown, SiblingEnters, SiblingLeaves, Login,
     memory, vars
<1> QED
  BY <1>3, <1>4, <1>5, <1>6, <1>7, Steps

\* A provider tells of the death of a family at most once, however its calls
\* overlap, as long as the store stays readable and nobody signs out. (A call
\* that finds no readable token of its own takes its verdict for standing: a
\* sign-out after the next sign-in makes it tell the old death once more.)
THEOREM OneEvent ==
  ASSUME {"unreadable", "signOut"} \cap Disturbances = {}
  PROVE  Spec => []OneEventPerDeath
<1>1. Init => EventInv
  <2>1. Init => readable /\ store.tok # NoToken
    <3>1. [family |-> 1, gen |-> 0] \in Tokens
      BY Bounds, ProviderAssumption DEF Tokens, Families
    <3> QED
      BY <3>1, ProviderAssumption DEF Init
  <2> QED
    BY <2>1 DEF Init, EventInv
<1>2. Base /\ Condemnations /\ EventInv /\ [Next]_vars => EventInv'
  <2> SUFFICES ASSUME Base, Condemnations, EventInv, [Next]_vars
               PROVE  EventInv'
    OBVIOUS
  <2>1. readable' /\ store'.tok # NoToken
    BY StoreKept DEF EventInv
  <2>2. \A c \in Calls :
          (pc'[c] = "await" /\ IsVerdict(reply[c])') \/ pc'[c] = "recheck"
          => Settled(tok[c].family)'
    BY DoomedSettled
  <2>3. \A p \in Procs, f \in Families :
          /\ events'[p][f] <= 1
          /\ events'[p][f] > 0 =>
             Settled(f)' /\ (store'.tok.family = f => dead'[p] = store'.tok)
    BY EventsNext
  <2> QED
    BY <2>1, <2>2, <2>3 DEF EventInv
<1>3. EventInv => OneEventPerDeath
  BY DEF EventInv, OneEventPerDeath
<1> QED
  BY <1>1, <1>2, <1>3, BaseInvariant, CondemnationsInvariant, PTL DEF Spec
-----------------------------------------------------------------------------
(* The one client.                                                         *)

\* A call that has not asked yet has no answer left over.
Silent ==
    \A c \in Calls : pc[c] \notin {"await", "write", "recheck", "sleep"} => reply[c] = "none"

\* Every step leaves it so.
LEMMA SilentNext ==
  ASSUME Base, Silent, [Next]_vars
  PROVE  Silent'
<1> DEFINE Asked == {"await", "write", "recheck", "sleep"}
<1>0. TypeOK
  BY DEF Base
<1>1. ASSUME NEW c \in Calls, CallStep(c), pc'[c] \notin Asked
      PROVE  reply'[c] = "none"
  <2>1. CASE \E kind, t : Ends(c, kind, t)
    BY <1>0, <2>1 DEF Ends, TypeOK
  <2>2. ASSUME NEW m \in ModesOf[c], Call(c, m)
        PROVE  reply'[c] = "none"
    BY <2>2 DEF Call, Silent
  <2>3. CASE EnterToRefresh(c) \/ Return(c)
    BY <1>0, <2>3 DEF EnterToRefresh, Enter, Return, Goto, Silent
  <2>4. CASE TryNextId(c)
    BY <1>0, <2>4 DEF TryNextId, TypeOK
  <2>5. CASE Retry(c)
    BY <1>0, <2>1, <2>5 DEF Retry, TypeOK
  <2>6. Present(c) \/ PresentFails(c) \/ Lose(c) \/ Cancel(c) => pc'[c] = "await"
    BY <1>0 DEF Present, PresentFails, Lose, Cancel, Goto, TypeOK
  <2>7. Condemned(c) \/ Accept(c) => pc'[c] \in Asked
    BY <1>0 DEF Condemned, Accept, Goto, TypeOK
  <2>8. Transient(c) => pc'[c] = "sleep" \/ \E kind, t : Ends(c, kind, t)
    BY <1>0 DEF Transient, TypeOK
  <2> QED
    BY <1>1, <2>1, <2>2, <2>3, <2>4, <2>5, <2>6, <2>7, <2>8, Endings DEF CallStep, Refresh
<1>2. ASSUME NEW c \in Calls, CallStep(c)
      PROVE  Silent'
  BY <1>0, <1>1, <1>2, Bystander DEF Silent
<1>3. ASSUME NEW p \in Procs, Crash(p)
      PROVE  Silent'
  <2>1. \A c \in Calls : reply'[c] = IF ProcOf[c] = p THEN "none" ELSE reply[c]
    BY <1>3 DEF Crash
  <2> QED
    BY <1>3, <2>1, CrashKeeps DEF Silent
<1>4. UNCHANGED <<pc, reply>> => Silent'
  BY DEF Silent
<1> QED
  BY <1>2, <1>3, <1>4, Steps, WorldKeeps DEF vars, call

\* At most one answer is under way, to the call inside the section.
FlightIsOfOne ==
    /\ \A c, d \in Calls : InFlight(c) /\ InFlight(d) => c = d
    /\ \A c \in Calls : InFlight(c) => /\ Flight = Rotated(c) /\ Flight # NoToken
                                       /\ tok[c] = store.tok /\ holder = c
    /\ (\A c \in Calls : ~InFlight(c)) => Flight = NoToken

\* It is so whenever the base holds.
LEMMA OneFlight == Base => FlightIsOfOne
<1> SUFFICES ASSUME Base PROVE FlightIsOfOne
  OBVIOUS
<1>1. \A c \in Calls : InFlight(c) => holder = c /\ tok[c] = store.tok
  BY DEF Base, Sound, InFlight, Inside
<1>2. \A c, d \in Calls : InFlight(c) /\ InFlight(d) => c = d
  BY <1>1
<1>3. ASSUME NEW c \in Calls, InFlight(c)
      PROVE  Flight = Rotated(c) /\ Flight # NoToken
  <2>1. Flight = Rotated(CHOOSE d \in Calls : InFlight(d))
    BY <1>3 DEF Flight
  <2>2. (CHOOSE d \in Calls : InFlight(d)) = c
    BY <1>2, <1>3
  <2>3. Rotated(c) # NoToken
    BY <1>3, RotatedType, ProviderAssumption DEF Base
  <2> QED
    BY <2>1, <2>2, <2>3
<1>4. (\A c \in Calls : ~InFlight(c)) => Flight = NoToken
  BY DEF Flight
<1> QED
  BY <1>1, <1>2, <1>3, <1>4 DEF FlightIsOfOne

\* A loss is counted when an answer under way is lost, and only then.
LEMMA LossesAreFlights ==
  ASSUME Base, Silent, NEW c \in Calls, CallStep(c), losses' # losses
  PROVE  losses' = losses + 1 /\ InFlight(c) /\ ~InFlight(c)' /\ ~WriteRotation(c)
<1>0. TypeOK
  BY DEF Base
<1>1. Lose(c) \/ Cancel(c) \/ WriteFails(c)
  BY DEF history, CallStep, Refresh, Call, EnterAndAdopt, EnterInVain, EnterToRefresh,
     Present, TryNextId, Refused, Transient, Condemned, Accept, WriteRotation,
     RecheckAdopts, RecheckCondemns, Retry, Busy, Return, PresentFails
<1>2. CASE Lose(c)
  BY <1>0, <1>2 DEF Lose, InFlight, Committed, TypeOK, WriteRotation
<1>3. CASE Cancel(c)
  BY <1>0, <1>3 DEF Cancel, InFlight, Committed, TypeOK, WriteRotation, Silent
<1>4. CASE WriteFails(c)
  BY <1>0, <1>4 DEF WriteFails, Ends, InFlight, TypeOK, WriteRotation, disk
<1> QED
  BY <1>1, <1>2, <1>3, <1>4

\* As long as an answer is under way, it is the same one.
LEMMA FlightStays ==
  ASSUME Base, NEW c \in Calls, CallStep(c), InFlight(c), InFlight(c)'
  PROVE  tok'[c] = tok[c] /\ UNCHANGED <<store, rows>>
<1>0. TypeOK
  BY DEF Base
<1>1. pc[c] \in {"await", "write"} /\ pc'[c] \in {"await", "write"}
  BY DEF InFlight
<1>2. ~Present(c) /\ ~WriteRotation(c)
  BY <1>0, <1>1 DEF Present, Goto, WriteRotation, Ends, TypeOK
<1>3. pc'[c] = "write" => UNCHANGED call
  BY <1>0, Arrivals DEF Accept
<1>4. pc'[c] = "await" => PresentFails(c) \/ Lose(c) \/ Cancel(c)
  BY <1>0, <1>2, Arrivals
<1>5. tok'[c] = tok[c]
  BY <1>1, <1>3, <1>4 DEF call, PresentFails, Lose, Cancel
<1> QED
  BY <1>2, <1>5, CallStore, CallRows

\* A request is the client's: of the token that the store holds, which is the
\* newest as long as nothing was lost.
LEMMA AsksAsOne ==
  ASSUME Base, Debt, FlightIsOfOne, FlightIsOfOne', NEW c \in Calls, Present(c)
  PROVE  \E client \in Clients : Client!Ask(client)
<1> DEFINE f == tok[c].family
           verdict == Verdict(rows[f], tok[c].gen, Head(ids[c]))
<1>0. TypeOK
  BY DEF Base
<1>1. /\ tok[c] # NoToken /\ tok[c] = store.tok /\ holder = c /\ ids[c] # <<>>
      /\ ids[c] \in Seq(Clients)
  BY <1>0 DEF Base, Sound, Present, Goto, Inside, TypeOK
<1>2. Head(ids[c]) \in Clients
  BY <1>1
<1>3. \A d \in Calls : ~InFlight(d)
  BY <1>0, <1>1 DEF Base, Sound, InFlight, Inside, Present, Goto
<1>4. Flight = NoToken
  BY <1>3 DEF FlightIsOfOne
<1>5. losses = 0 => store.tok.gen = rows[store.tok.family].head
  <2>1. losses = 0 => Newest(store.tok)
    BY <1>0, <1>1, <1>3 DEF Debt, TypeOK
  <2> QED
    BY <2>1 DEF Newest, Row
<1>6. /\ rows' = [rows EXCEPT ![f] = Applied(rows[f], verdict)]
      /\ reply' = [reply EXCEPT ![c] = verdict]
      /\ pc' = [pc EXCEPT ![c] = "await"]
      /\ UNCHANGED <<store, tok, losses>>
  BY DEF Present, Goto, disk, history
<1>7. Flight' = IF verdict \in {"rotate", "replay"} THEN Rotated(c) ELSE NoToken
  <2>1. InFlight(c)' <=> verdict \in {"rotate", "replay"}
    BY <1>0, <1>6 DEF InFlight, Committed, TypeOK
  <2>2. \A d \in Calls : d # c => ~InFlight(d)'
    BY <1>0, <1>3, <1>6 DEF InFlight, Committed, TypeOK
  <2>3. InFlight(c)' => Flight' = Rotated(c)'
    BY DEF FlightIsOfOne
  <2>4. (\A d \in Calls : ~InFlight(d)') => Flight' = NoToken
    BY DEF FlightIsOfOne
  <2>5. Rotated(c)' = Rotated(c)
    BY <1>6 DEF Rotated
  <2> QED
    BY <2>1, <2>2, <2>3, <2>4, <2>5
<1>8. /\ verdict = Client!Verdict(rows[store.tok.family], store.tok.gen, Head(ids[c]))
      /\ Applied(rows[f], verdict) = Client!Applied(rows[f], verdict)
  BY <1>1 DEF Verdict, Client!Verdict, Applied, Client!Applied
<1> HIDE DEF verdict
<1> QED
  BY <1>1, <1>2, <1>4, <1>5, <1>6, <1>7, <1>8 DEF Client!Ask, Rotated

\* A step of a call is one of the client, or none.
LEMMA CallAsOne ==
  ASSUME Base, Debt, Silent, FlightIsOfOne, FlightIsOfOne', NEW c \in Calls, CallStep(c)
  PROVE  Client!Next \/ UNCHANGED Client!clientVars
<1>0. TypeOK
  BY DEF Base
<1>1. CASE Present(c)
  BY <1>1, AsksAsOne DEF Client!Next
<1>2. CASE WriteRotation(c)
  <2>1. InFlight(c) /\ UNCHANGED <<rows, losses>> /\ store'.tok = Rotated(c)
    BY <1>2 DEF WriteRotation, InFlight, server
  <2>2. ~InFlight(c)'
    BY <1>0, <1>2 DEF WriteRotation, Ends, InFlight, TypeOK
  <2>3. \A d \in Calls : ~InFlight(d)'
    BY <1>0, <2>1, <2>2, Bystander DEF FlightIsOfOne, InFlight, Committed
  <2>4. Flight = Rotated(c) /\ Flight # NoToken /\ Flight' = NoToken
    BY <2>1, <2>3 DEF FlightIsOfOne
  <2> QED
    BY <2>1, <2>4 DEF Client!Next, Client!Keep
<1>3. CASE ~Present(c) /\ ~WriteRotation(c)
  <2>1. UNCHANGED <<store, rows>>
    BY <1>3, CallStore, CallRows
  <2>2. \A d \in Calls : d # c => InFlight(d)' = InFlight(d) /\ tok'[d] = tok[d]
    BY <1>0, Bystander DEF InFlight, Committed
  <2>3. CASE InFlight(c) /\ ~InFlight(c)'
    <3>1. losses' = losses + 1
      BY <1>3, <2>3, FlightEnds
    <3>2. \A d \in Calls : ~InFlight(d)'
      BY <2>2, <2>3 DEF FlightIsOfOne
    <3>3. Flight # NoToken /\ Flight' = NoToken
      BY <2>3, <3>2 DEF FlightIsOfOne
    <3> QED
      BY <2>1, <3>1, <3>3 DEF Client!Next, Client!Lose
  <2>4. CASE InFlight(c) /\ InFlight(c)'
    <3>1. Flight = Rotated(c) /\ Flight' = Rotated(c)'
      BY <2>4 DEF FlightIsOfOne
    <3>2. Rotated(c)' = Rotated(c)
      BY <2>4, FlightStays DEF Rotated
    <3>3. losses' = losses
      BY <2>4, LossesAreFlights
    <3> QED
      BY <2>1, <3>1, <3>2, <3>3 DEF Client!clientVars
  <2>5. CASE ~InFlight(c)
    <3>1. ~InFlight(c)'
      BY <1>3, <2>5, FlightBegins
    <3>2. losses' = losses
      BY <2>5, LossesAreFlights
    <3>3. Flight' = Flight
      <4>1. CASE \E d \in Calls : InFlight(d)
        <5>1. PICK d \in Calls : InFlight(d)
          BY <4>1
        <5>2. d # c /\ InFlight(d)' /\ tok'[d] = tok[d]
          BY <2>2, <2>5, <5>1
        <5> QED
          BY <5>1, <5>2 DEF FlightIsOfOne, Rotated
      <4>2. CASE \A d \in Calls : ~InFlight(d)
        BY <2>2, <3>1, <4>2 DEF FlightIsOfOne
      <4> QED
        BY <4>1, <4>2
    <3> QED
      BY <2>1, <3>2, <3>3 DEF Client!clientVars
  <2> QED
    BY <2>3, <2>4, <2>5
<1> QED
  BY <1>1, <1>2, <1>3

\* A crash loses what was under way to its process, if anything.
LEMMA CrashAsOne ==
  ASSUME Base, FlightIsOfOne, FlightIsOfOne', NEW p \in Procs, Crash(p)
  PROVE  Client!Next \/ UNCHANGED Client!clientVars
<1>0. UNCHANGED <<store, rows>>
  BY DEF Crash, disk, server
<1>1. \A d \in Calls : /\ ProcOf[d] = p => ~InFlight(d)'
                       /\ ProcOf[d] # p => InFlight(d)' = InFlight(d) /\ tok'[d] = tok[d]
  BY CrashKeeps DEF InFlight, Committed
<1>2. losses' = IF \E d \in Calls : ProcOf[d] = p /\ InFlight(d) THEN losses + 1 ELSE losses
  BY DEF Crash, InFlight
<1>3. CASE \E d \in Calls : ProcOf[d] = p /\ InFlight(d)
  <2>1. PICK d \in Calls : ProcOf[d] = p /\ InFlight(d)
    BY <1>3
  <2>2. \A e \in Calls : ~InFlight(e)'
    BY <1>1, <2>1 DEF FlightIsOfOne
  <2>3. Flight # NoToken /\ Flight' = NoToken /\ losses' = losses + 1
    BY <1>2, <2>1, <2>2 DEF FlightIsOfOne
  <2> QED
    BY <1>0, <2>3 DEF Client!Next, Client!Lose
<1>4. CASE ~ \E d \in Calls : ProcOf[d] = p /\ InFlight(d)
  <2>1. losses' = losses
    BY <1>2, <1>4
  <2>2. Flight' = Flight
    <3>1. CASE \E d \in Calls : InFlight(d)
      <4>1. PICK d \in Calls : InFlight(d)
        BY <3>1
      <4>2. InFlight(d)' /\ tok'[d] = tok[d]
        BY <1>1, <1>4, <4>1
      <4> QED
        BY <4>1, <4>2 DEF FlightIsOfOne, Rotated
    <3>2. CASE \A d \in Calls : ~InFlight(d)
      BY <1>1, <3>2 DEF FlightIsOfOne
    <3> QED
      BY <3>1, <3>2
  <2> QED
    BY <1>0, <2>1, <2>2 DEF Client!clientVars
<1> QED
  BY <1>3, <1>4

\* What the environment does beside it, the client's environment may do: nobody
\* signs in or out while an answer is under way.
LEMMA WorldAsOne ==
  ASSUME Base, FlightIsOfOne, FlightIsOfOne', World
  PROVE  Client!Next \/ UNCHANGED Client!clientVars
<1>0. TypeOK
  BY DEF Base
<1>1. UNCHANGED <<pc, call>>
  BY WorldKeeps
<1>2. Flight' = Flight
  BY <1>1 DEF Flight, InFlight, Committed, Rotated, call
<1>3. holder = NoCall => Flight = NoToken
  <2>1. holder = NoCall => \A d \in Calls : ~InFlight(d)
    BY Types DEF Base, Sound, InFlight, Inside
  <2> QED
    BY <2>1 DEF FlightIsOfOne
<1>4. CASE TakeOver
  <2>1. rows' = [f \in DOMAIN rows |->
                    IF f \in DOMAIN rows THEN [rows[f] EXCEPT !.grace = FALSE] ELSE rows[f]]
    BY <1>4 DEF TakeOver
  <2>2. UNCHANGED <<store, losses>>
    BY <1>4 DEF TakeOver, disk, history
  <2> QED
    BY <1>2, <2>1, <2>2 DEF Client!Next, Client!GraceEnds
<1>5. ASSUME NEW g \in DOMAIN rows, GraceEnds(g)
      PROVE  Client!Next
  <2>1. rows' = [f \in DOMAIN rows |->
                    IF f \in {g} THEN [rows[f] EXCEPT !.grace = FALSE] ELSE rows[f]]
    BY <1>0, <1>5 DEF GraceEnds, TypeOK
  <2>2. UNCHANGED <<store, losses>>
    BY <1>5 DEF GraceEnds, disk, history
  <2>3. {g} \in SUBSET DOMAIN rows
    BY <1>5
  <2> QED
    BY <1>2, <2>1, <2>2, <2>3 DEF Client!Next, Client!GraceEnds
<1>6. ASSUME NEW g \in DOMAIN rows, FamilyDies(g)
      PROVE  Client!Next
  BY <1>2, <1>6 DEF FamilyDies, disk, Client!Next, Client!FamilyDies
<1>7. ASSUME NEW client \in Clients, Login(client)
      PROVE  Client!Next
  BY <1>2, <1>3, <1>7 DEF Login, Minted, Client!Minted, Client!Next, Client!Login
<1>8. CASE SignOut
  BY <1>2, <1>3, <1>8 DEF SignOut, server, NoRecord, Client!Next, Client!SignOut
<1>9. StoreSpoils \/ StoreHeals \/ OtherVerdict
        \/ (\E p \in Procs : CoolsDown(p) \/ SiblingEnters(p) \/ SiblingLeaves(p))
      => UNCHANGED <<rows, store, losses>>
  BY DEF StoreSpoils, StoreHeals, OtherVerdict, CoolsDown, SiblingEnters, SiblingLeaves,
     disk, server, history
<1> QED
  BY <1>2, <1>4, <1>5, <1>6, <1>7, <1>8, <1>9 DEF World, Client!clientVars

\* The processes of a machine are one client to the server: any interleaving of any
\* calls, with crashes, losses, sign-ins and sign-outs, is a behaviour of SoleClient.
THEOREM OneClient == Spec => ImplementsSoleClient
<1>1. Init => Client!Init
  BY DEF Init, Minted, Client!Init, Client!Minted, Flight, InFlight
<1>2. Init => Silent
  BY DEF Init, Silent
<1>3. Base /\ Silent /\ [Next]_vars => Silent'
  BY SilentNext
<1>4. Base /\ Debt /\ Silent /\ FlightIsOfOne /\ FlightIsOfOne' /\ [Next]_vars
      => [Client!Next]_(Client!clientVars)
  <2>1. UNCHANGED vars => UNCHANGED Client!clientVars
    BY DEF vars, disk, call, server, history, Client!clientVars, Flight, InFlight,
       Committed, Rotated
  <2> QED
    BY <2>1, Steps, CallAsOne, CrashAsOne, WorldAsOne
<1> QED
  BY <1>1, <1>2, <1>3, <1>4, OneFlight, BaseInvariant, DebtInvariant, PTL
     DEF Spec, ImplementsSoleClient, Client!Spec
=============================================================================
