----------------------------- MODULE MsigProofs -----------------------------
(***************************************************************************)
(* Proofs about Msig, for every set of proposals, levels and transactions  *)
(* and every rule of authority.                                            *)
(***************************************************************************)
EXTENDS Msig, TLAPS

\* No time that was written down is later than now: the strength by which an
\* invalidation reaches every approval that was given before it.
TimesPast ==
    /\ \A p \in Names : \A a \in approvals[p].provided : a.time <= now
    /\ \A x \in Accounts : invalidations[x] # NoTime => invalidations[x] <= now

\* A level that has approved is not asked for again until it withdraws.
Apart == \A p \in Names : approvals[p].requested \cap LevelsOf(approvals[p].provided) = {}

IInv == TypeOK /\ TimesPast /\ Apart /\ CountedIsConsent

\* What CountedIsConsent says of one proposal.
Consenting(p) ==
    /\ Counted(p) \subseteq LevelsOf({a \in consent[p] : a.hash \in {NoTrx, proposals[p]}})
    /\ LevelsOf(consent[p]) \subseteq LevelsOf(approvals[p].provided)
    /\ \A a \in approvals[p].provided :
         a.level \in LevelsOf(consent[p]) =>
           \/ Counts(p, a)
           \/ approvals[p].is_old
           \/ invalidations[Actor[a.level]] = a.time

-----------------------------------------------------------------------------
(* Type correctness                                                        *)

LEMMA RowTypes == NoRow \in Rows /\ NoRow.provided = {} /\ NoRow.requested = {}
BY DEF NoRow, Rows

LEMMA InitTypes == Init => TypeOK
<1> SUFFICES ASSUME Init PROVE TypeOK
  OBVIOUS
<1>1. approvals \in [Names -> Rows]
  BY RowTypes DEF Init, Rows, NoRow
<1>2. \A p \in Names : proposals[p] = NoTrx => approvals[p] = NoRow
  BY DEF Init
<1>3. \A p \in Names : deferred[p].trx = NoTrx <=> deferred[p] = NoSend
  BY DEF Init, NoSend
<1>4. deferred \in [Names -> [trx : Trxs \cup {NoTrx}, delay_until : Nat]]
  BY DEF Init, NoSend
<1> QED
  BY <1>1, <1>2, <1>3, <1>4 DEF Init, TypeOK

LEMMA NextTypes == TypeOK /\ [Next]_vars => TypeOK'
<1> SUFFICES ASSUME TypeOK, [Next]_vars PROVE TypeOK'
  OBVIOUS
<1> USE MsigAssumption
<1>1. CASE \E p \in Names, requested \in SUBSET Levels, trx \in Trxs : propose(p, requested, trx)
  <2>1. PICK p \in Names, requested \in SUBSET Levels, trx \in Trxs : propose(p, requested, trx)
    BY <1>1
  <2>2. [NoRow EXCEPT !.requested = requested] \in Rows
    BY DEF NoRow, Rows
  <2> QED
    BY <2>1, <2>2 DEF propose, TypeOK
<1>2. CASE \E p \in Names, level \in Levels, hash \in Trxs \cup {NoTrx} : approve(p, level, hash)
  <2>1. PICK p \in Names, level \in Levels, hash \in Trxs \cup {NoTrx} : approve(p, level, hash)
    BY <1>2
  <2> DEFINE time == IF approvals[p].is_old THEN 0 ELSE now
             row == [approvals[p] EXCEPT
                       !.requested = @ \ {level},
                       !.provided = @ \cup {[level |-> level, time |-> time]}]
  <2>2. approvals' = [approvals EXCEPT ![p] = row]
    BY <2>1 DEF approve
  <2>3. approvals[p] \in Rows /\ time \in Nat
    BY DEF TypeOK, Rows
  <2> HIDE DEF time
  <2>4. row \in Rows
    <3>1. [level |-> level, time |-> time] \in [level : Levels, time : Nat]
      BY <2>3
    <3> QED
      BY <2>3, <3>1 DEF Rows
  <2>5. proposals[p] # NoTrx
    BY <2>1, RowTypes DEF approve, TypeOK
  <2> HIDE DEF row
  <2>6. consent' \in [Names -> SUBSET [level : Levels, hash : Trxs \cup {NoTrx}]]
    BY <2>1 DEF approve, TypeOK
  <2>7. UNCHANGED <<now, proposals, invalidations, deferred>>
    BY <2>1 DEF approve
  <2> QED
    BY <2>2, <2>4, <2>5, <2>6, <2>7 DEF TypeOK
<1>3. CASE \E p \in Names, level \in Levels : unapprove(p, level)
  <2>1. PICK p \in Names, level \in Levels : unapprove(p, level)
    BY <1>3
  <2> DEFINE row == [approvals[p] EXCEPT !.requested = @ \cup {level},
                                         !.provided = Without(@, level)]
  <2>2. row \in Rows
    <3>1. approvals[p] \in Rows
      BY DEF TypeOK
    <3>2. PICK given : given = Without(approvals[p].provided, level)
      OBVIOUS
    <3>3. given \in SUBSET [level : Levels, time : Nat]
      BY <3>1, <3>2 DEF Rows, Without
    <3>4. row = [approvals[p] EXCEPT !.requested = @ \cup {level}, !.provided = given]
      BY <3>2
    <3> HIDE DEF row
    <3> QED
      BY <3>1, <3>3, <3>4 DEF Rows
  <2>3. approvals' = [approvals EXCEPT ![p] = row]
    BY <2>1 DEF unapprove
  <2>4. proposals[p] # NoTrx
    BY <2>1, RowTypes DEF unapprove, LevelsOf, TypeOK
  <2> HIDE DEF row
  <2>5. consent' \in [Names -> SUBSET [level : Levels, hash : Trxs \cup {NoTrx}]]
    BY <2>1 DEF unapprove, Without, TypeOK
  <2>6. UNCHANGED <<now, proposals, invalidations, deferred>>
    BY <2>1 DEF unapprove
  <2> QED
    BY <2>2, <2>3, <2>4, <2>5, <2>6 DEF TypeOK
<1>4. CASE \E p \in Names, canceler \in Accounts : cancel(p, canceler)
  BY <1>4, RowTypes DEF cancel, TypeOK
<1>5. CASE \E p \in Names : exec(p)
  <2>1. PICK p \in Names : exec(p)
    BY <1>5
  <2> DEFINE send == [trx |-> proposals[p], delay_until |-> now + Delay[proposals[p]]]
  <2>2. proposals[p] \in Trxs
    BY <2>1 DEF exec, TypeOK
  <2>3. send \in [trx : Trxs \cup {NoTrx}, delay_until : Nat]
    BY <2>2 DEF TypeOK
  <2>4. send.trx # NoTrx /\ send # NoSend
    BY <2>2 DEF NoSend
  <2>5. deferred' = [deferred EXCEPT ![p] = send]
    BY <2>1 DEF exec
  <2> HIDE DEF send
  <2> QED
    BY <2>1, <2>3, <2>4, <2>5, RowTypes DEF exec, TypeOK
<1>6. CASE \E p \in Names : Run(p)
  <2>1. NoSend \in [trx : Trxs \cup {NoTrx}, delay_until : Nat] /\ NoSend.trx = NoTrx
    BY DEF NoSend
  <2> QED
    BY <1>6, <2>1 DEF Run, TypeOK
<1>7. CASE \E account \in Accounts : invalidate(account)
  BY <1>7 DEF invalidate, TypeOK
<1>8. CASE Tick
  BY <1>8 DEF Tick, TypeOK
<1>9. CASE UNCHANGED vars
  BY <1>9 DEF vars, TypeOK
<1> QED
  BY <1>1, <1>2, <1>3, <1>4, <1>5, <1>6, <1>7, <1>8, <1>9 DEF Next

-----------------------------------------------------------------------------
(* Only standing consent counts                                            *)

LEMMA LevelsAdded ==
    ASSUME NEW given, NEW a
    PROVE  LevelsOf(given \cup {a}) = LevelsOf(given) \cup {a.level}
BY DEF LevelsOf

LEMMA LevelsWithout ==
    ASSUME NEW given, NEW level
    PROVE  LevelsOf(Without(given, level)) = LevelsOf(given) \ {level}
BY DEF LevelsOf, Without

LEMMA InitIInv == Init => IInv
<1> SUFFICES ASSUME Init PROVE IInv
  OBVIOUS
<1>1. \A p \in Names : approvals[p].provided = {} /\ consent[p] = {}
  BY DEF Init, NoRow
<1>2. TimesPast /\ Apart
  BY <1>1 DEF TimesPast, Apart, LevelsOf, Init
<1>3. CountedIsConsent
  BY <1>1 DEF CountedIsConsent, Counted, LevelsOf
<1> QED
  BY <1>2, <1>3, InitTypes DEF IInv

\* A proposal that is made, canceled or executed begins or ends with nobody
\* behind it, and leaves the others as they are.
LEMMA Renewed ==
    ASSUME IInv, TypeOK', NEW p \in Names, UNCHANGED <<now, invalidations>>,
           approvals'[p].provided = {}, consent'[p] = {},
           \A q \in Names \ {p} : /\ approvals'[q] = approvals[q]
                                  /\ consent'[q] = consent[q]
                                  /\ proposals'[q] = proposals[q]
    PROVE  IInv'
<1>1. TimesPast'
  BY DEF IInv, TimesPast
<1>2. Apart'
  BY DEF IInv, Apart, LevelsOf
<1>3. CountedIsConsent'
  <2>1. Consenting(p)'
    BY DEF Consenting, Counted, LevelsOf
  <2>2. ASSUME NEW q \in Names \ {p} PROVE Consenting(q)'
    BY Z3T(30) DEF IInv, CountedIsConsent, Consenting, Counted, Counts
  <2> QED
    BY <2>1, <2>2 DEF CountedIsConsent, Consenting
<1> QED
  BY <1>1, <1>2, <1>3 DEF IInv

LEMMA ApproveIInv ==
    ASSUME IInv, TypeOK', NEW p \in Names, NEW level \in Levels, NEW hash \in Trxs \cup {NoTrx},
           approve(p, level, hash)
    PROVE  IInv'
<1> DEFINE new == [level |-> level, time |-> IF approvals[p].is_old THEN 0 ELSE now]
<1>1. /\ approvals[p] \in Rows
      /\ level \in approvals[p].requested
      /\ hash \in {NoTrx, proposals[p]}
      /\ UNCHANGED <<now, proposals, invalidations>>
  BY DEF approve, IInv, TypeOK
<1>2. /\ approvals'[p] = [approvals[p] EXCEPT !.requested = @ \ {level},
                                              !.provided = @ \cup {new}]
      /\ consent'[p] = consent[p] \cup {[level |-> level, hash |-> hash]}
      /\ \A q \in Names \ {p} : approvals'[q] = approvals[q] /\ consent'[q] = consent[q]
  BY DEF approve, IInv, TypeOK
<1>3. /\ approvals'[p].is_old = approvals[p].is_old
      /\ approvals'[p].requested = approvals[p].requested \ {level}
      /\ approvals'[p].provided = approvals[p].provided \cup {new}
  BY <1>1, <1>2 DEF Rows
<1>4. now \in Nat /\ new.level = level /\ new.time <= now /\ (~approvals[p].is_old => new.time = now)
  BY DEF IInv, TypeOK
<1> HIDE DEF new
<1>5. TimesPast'
  BY <1>1, <1>2, <1>3, <1>4 DEF IInv, TimesPast
<1>6. Apart'
  <2>1. \A q \in Names : approvals[q].requested \cap LevelsOf(approvals[q].provided) = {}
    BY DEF IInv, Apart
  <2>2. LevelsOf(approvals'[p].provided) = LevelsOf(approvals[p].provided) \cup {level}
    BY <1>3, <1>4, LevelsAdded
  <2>3. approvals'[p].requested \cap LevelsOf(approvals'[p].provided) = {}
    BY <1>3, <2>1, <2>2
  <2> QED
    BY <1>2, <2>1, <2>3 DEF Apart
<1>7. CountedIsConsent'
  <2>1. Consenting(p)'
    <3>1. LevelsOf(consent'[p]) = LevelsOf(consent[p]) \cup {level}
      <4> DEFINE c == [level |-> level, hash |-> hash]
      <4>1. c.level = level
        OBVIOUS
      <4>2. consent'[p] = consent[p] \cup {c}
        BY <1>2
      <4> HIDE DEF c
      <4> QED
        BY <4>1, <4>2, LevelsAdded
    <3>2. \A a : Counts(p, a)' <=> Counts(p, a)
      BY <1>1, <1>3 DEF Counts
    <3>3. Consenting(p)
      BY DEF IInv, CountedIsConsent, Consenting
    <3>4. ASSUME NEW l \in Counted(p)'
          PROVE  l \in LevelsOf({a \in consent'[p] : a.hash \in {NoTrx, proposals'[p]}})
      <4>1. PICK a \in approvals[p].provided \cup {new} : Counts(p, a) /\ a.level = l
        BY <1>3, <3>2, <3>4 DEF Counted, LevelsOf
      <4>2. CASE a = new
        <5>1. [level |-> level, hash |-> hash] \in consent'[p]
          BY <1>2
        <5> QED
          BY <1>1, <1>4, <4>1, <4>2, <5>1 DEF LevelsOf
      <4>3. CASE a # new
        <5>1. l \in Counted(p)
          BY <4>1, <4>3 DEF Counted, LevelsOf
        <5>2. PICK c \in consent[p] : c.hash \in {NoTrx, proposals[p]} /\ c.level = l
          BY <3>3, <5>1 DEF Consenting, LevelsOf
        <5> QED
          BY <1>1, <1>2, <5>2 DEF LevelsOf
      <4> QED
        BY <4>2, <4>3
    <3>5. LevelsOf(consent'[p]) \subseteq LevelsOf(approvals'[p].provided)
      BY <1>3, <1>4, <3>1, <3>3, LevelsAdded DEF Consenting
    <3>6. ASSUME NEW a \in approvals'[p].provided, a.level \in LevelsOf(consent'[p])
          PROVE  \/ Counts(p, a)'
                 \/ approvals'[p].is_old
                 \/ invalidations'[Actor[a.level]] = a.time
      <4>1. CASE a = new
        <5>1. Actor[level] \in Accounts
          BY MsigAssumption
        <5>2. invalidations[Actor[level]] \in Nat /\ ~approvals[p].is_old =>
                invalidations[Actor[level]] < a.time \/ invalidations[Actor[level]] = a.time
          BY <1>4, <4>1, <5>1, MsigAssumption DEF IInv, TimesPast
        <5>3. invalidations[Actor[level]] \in Nat \cup {NoTime}
          BY <5>1 DEF IInv, TypeOK
        <5> QED
          BY <1>1, <1>3, <1>4, <3>2, <4>1, <5>2, <5>3 DEF Counts
      <4>2. CASE a # new
        <5>1. a \in approvals[p].provided /\ a.level # level
          BY <1>1, <1>3, <3>6, <4>2 DEF IInv, Apart, LevelsOf
        <5> QED
          BY <1>1, <1>3, <3>1, <3>2, <3>3, <3>6, <5>1 DEF Consenting
      <4> QED
        BY <4>1, <4>2
    <3> QED
      BY <3>4, <3>5, <3>6 DEF Consenting
  <2>2. ASSUME NEW q \in Names \ {p} PROVE Consenting(q)'
    BY <1>1, <1>2 DEF IInv, CountedIsConsent, Consenting, Counted, Counts
  <2> QED
    BY <2>1, <2>2 DEF CountedIsConsent, Consenting
<1> QED
  BY <1>5, <1>6, <1>7 DEF IInv

\* A level that withdraws is the only one that counts no more.
LEMMA CountedWithout ==
    ASSUME IInv, NEW p \in Names, NEW level \in Levels, unapprove(p, level)
    PROVE  Counted(p)' = Counted(p) \ {level}
<1>1. approvals[p] \in Rows /\ UNCHANGED invalidations
  BY DEF unapprove, IInv, TypeOK
<1>2. approvals'[p] = [approvals[p] EXCEPT !.requested = @ \cup {level},
                                           !.provided = Without(@, level)]
  BY DEF unapprove, IInv, TypeOK
<1>3. /\ approvals'[p].is_old = approvals[p].is_old
      /\ approvals'[p].provided = {a \in approvals[p].provided : a.level # level}
  BY <1>1, <1>2 DEF Rows, Without
<1>4. \A a : Counts(p, a)' <=> Counts(p, a)
  BY <1>1, <1>3 DEF Counts
<1> QED
  BY <1>3, <1>4 DEF Counted, LevelsOf

LEMMA UnapproveIInv ==
    ASSUME IInv, TypeOK', NEW p \in Names, NEW level \in Levels, unapprove(p, level)
    PROVE  IInv'
<1>1. approvals[p] \in Rows /\ UNCHANGED <<now, proposals, invalidations>>
  BY DEF unapprove, IInv, TypeOK
<1>2. /\ approvals'[p] = [approvals[p] EXCEPT !.requested = @ \cup {level},
                                              !.provided = Without(@, level)]
      /\ consent'[p] = Without(consent[p], level)
      /\ \A q \in Names \ {p} : approvals'[q] = approvals[q] /\ consent'[q] = consent[q]
  BY DEF unapprove, IInv, TypeOK
<1>3. /\ approvals'[p].is_old = approvals[p].is_old
      /\ approvals'[p].requested = approvals[p].requested \cup {level}
      /\ approvals'[p].provided = Without(approvals[p].provided, level)
  BY <1>1, <1>2 DEF Rows
<1>4. TimesPast'
  BY <1>1, <1>2, <1>3 DEF IInv, TimesPast, Without
<1>5. Apart'
  <2>1. \A q \in Names : approvals[q].requested \cap LevelsOf(approvals[q].provided) = {}
    BY DEF IInv, Apart
  <2>2. LevelsOf(approvals'[p].provided) = LevelsOf(approvals[p].provided) \ {level}
    BY <1>3, LevelsWithout
  <2>3. approvals'[p].requested \cap LevelsOf(approvals'[p].provided) = {}
    BY <1>3, <2>1, <2>2
  <2> QED
    BY <1>2, <2>1, <2>3 DEF Apart
<1>6. CountedIsConsent'
  <2>1. Consenting(p)'
    <3>1. Counted(p)' \subseteq Counted(p) \ {level}
      BY <1>1, <1>2, CountedWithout DEF unapprove
    <3>2. ASSUME NEW l \in Counted(p)'
          PROVE  l \in LevelsOf({a \in consent[p] : a.hash \in {NoTrx, proposals[p]}})'
      <4>1. PICK a \in consent[p] : a.hash \in {NoTrx, proposals[p]} /\ a.level = l
        BY <3>1, <3>2 DEF IInv, CountedIsConsent, LevelsOf
      <4>2. a \in consent'[p] /\ a.hash \in {NoTrx, proposals'[p]}
        BY <1>1, <1>2, <3>1, <3>2, <4>1 DEF Without
      <4> QED
        BY <4>1, <4>2 DEF LevelsOf
    <3>3. LevelsOf(consent[p])' \subseteq LevelsOf(approvals[p].provided)'
      BY <1>2, <1>3, LevelsWithout DEF IInv, CountedIsConsent
    <3>4. ASSUME NEW a \in approvals'[p].provided, a.level \in LevelsOf(consent[p])'
          PROVE  \/ Counts(p, a)'
                 \/ approvals'[p].is_old
                 \/ invalidations'[Actor[a.level]] = a.time
      <4>1. a \in approvals[p].provided
        BY <1>3 DEF Without
      <4>2. a.level \in LevelsOf(consent[p])
        BY <1>2, <3>4 DEF LevelsOf, Without
      <4>3. Counts(p, a) \/ approvals[p].is_old \/ invalidations[Actor[a.level]] = a.time
        BY <4>1, <4>2 DEF IInv, CountedIsConsent
      <4> QED
        BY <1>1, <1>3, <4>3 DEF Counts
    <3> QED
      BY <3>2, <3>3, <3>4 DEF Consenting
  <2>2. ASSUME NEW q \in Names \ {p} PROVE Consenting(q)'
    BY <1>1, <1>2 DEF IInv, CountedIsConsent, Consenting, Counted, Counts
  <2> QED
    BY <2>1, <2>2 DEF CountedIsConsent, Consenting
<1> QED
  BY <1>4, <1>5, <1>6 DEF IInv

\* Nothing that an account has approved counts once it has invalidated.
LEMMA Invalidated ==
    ASSUME IInv, NEW account \in Accounts, invalidate(account),
           NEW p \in Names, NEW a \in approvals[p].provided, Actor[a.level] = account
    PROVE  ~Counts(p, a)'
<1>1. now \in Nat /\ a.time \in Nat /\ a.time <= now
  BY DEF IInv, TypeOK, TimesPast, Rows
<1>2. invalidations'[account] = now /\ approvals' = approvals
  BY DEF invalidate, IInv, TypeOK
<1> QED
  BY <1>1, <1>2, MsigAssumption DEF Counts

LEMMA InvalidateIInv ==
    ASSUME IInv, TypeOK', NEW account \in Accounts, invalidate(account)
    PROVE  IInv'
<1>1. /\ now \in Nat
      /\ UNCHANGED <<now, proposals, approvals>>
      /\ invalidations'[account] = now
      /\ \A x \in Accounts \ {account} : invalidations'[x] = invalidations[x]
      /\ \A p \in Names : consent'[p] = {a \in consent[p] : Actor[a.level] # account}
  BY DEF invalidate, IInv, TypeOK
<1>2. TimesPast'
  BY <1>1 DEF IInv, TimesPast
<1>3. Apart'
  BY <1>1 DEF IInv, Apart, LevelsOf
<1>4. ASSUME NEW p \in Names, NEW a \in approvals[p].provided, Actor[a.level] # account
      PROVE  /\ Counts(p, a)' <=> Counts(p, a)
             /\ invalidations'[Actor[a.level]] = invalidations[Actor[a.level]]
  <2>1. Actor[a.level] \in Accounts
    <3>1. approvals[p] \in Rows
      BY DEF IInv, TypeOK
    <3>2. a.level \in Levels
      BY <3>1 DEF Rows
    <3> QED
      BY <3>2, MsigAssumption
  <2> QED
    BY <1>1, <1>4, <2>1 DEF Counts
<1>5. ASSUME NEW p \in Names PROVE Consenting(p)'
  <2>1. ASSUME NEW l \in Counted(p)' PROVE Actor[l] # account /\ l \in Counted(p)
    <3>1. PICK a \in approvals[p].provided : Counts(p, a)' /\ a.level = l
      BY <1>1, <2>1 DEF Counted, LevelsOf
    <3>2. Actor[l] # account
      BY <3>1, Invalidated
    <3> QED
      BY <1>4, <3>1, <3>2 DEF Counted, LevelsOf
  <2>2. Counted(p)' \subseteq LevelsOf({a \in consent[p] : a.hash \in {NoTrx, proposals[p]}})'
    BY <1>1, <2>1 DEF IInv, CountedIsConsent, LevelsOf
  <2>3. LevelsOf(consent[p])' \subseteq LevelsOf(approvals[p].provided)'
    BY <1>1 DEF IInv, CountedIsConsent, LevelsOf
  <2>4. ASSUME NEW a \in approvals'[p].provided, a.level \in LevelsOf(consent[p])'
        PROVE  \/ Counts(p, a)'
               \/ approvals'[p].is_old
               \/ invalidations'[Actor[a.level]] = a.time
    <3>1. Actor[a.level] # account /\ a.level \in LevelsOf(consent[p]) /\ a \in approvals[p].provided
      BY <1>1, <2>4 DEF LevelsOf
    <3> QED
      BY <1>1, <1>4, <3>1 DEF IInv, CountedIsConsent
  <2> QED
    BY <2>2, <2>3, <2>4 DEF Consenting
<1>6. CountedIsConsent'
  BY <1>5 DEF CountedIsConsent, Consenting
<1> QED
  BY <1>2, <1>3, <1>6 DEF IInv

LEMMA NextIInv == IInv /\ [Next]_vars => IInv'
<1> SUFFICES ASSUME IInv, [Next]_vars PROVE IInv'
  OBVIOUS
<1>1. TypeOK'
  BY NextTypes DEF IInv
<1>2. CASE \E p \in Names, requested \in SUBSET Levels, trx \in Trxs : propose(p, requested, trx)
  <2>1. PICK p \in Names, requested \in SUBSET Levels, trx \in Trxs : propose(p, requested, trx)
    BY <1>2
  <2>2. approvals'[p].provided = {}
    BY <2>1, RowTypes DEF propose, IInv, TypeOK, NoRow
  <2> QED
    BY <1>1, <2>1, <2>2, Renewed DEF propose, IInv, TypeOK
<1>3. CASE \E p \in Names, level \in Levels, hash \in Trxs \cup {NoTrx} : approve(p, level, hash)
  BY <1>1, <1>3, ApproveIInv
<1>4. CASE \E p \in Names, level \in Levels : unapprove(p, level)
  BY <1>1, <1>4, UnapproveIInv
<1>5. CASE \E p \in Names, canceler \in Accounts : cancel(p, canceler)
  <2>1. PICK p \in Names, canceler \in Accounts : cancel(p, canceler)
    BY <1>5
  <2> QED
    BY <1>1, <2>1, Renewed, RowTypes DEF cancel, IInv, TypeOK
<1>6. CASE \E p \in Names : exec(p)
  <2>1. PICK p \in Names : exec(p)
    BY <1>6
  <2> QED
    BY <1>1, <2>1, Renewed, RowTypes DEF exec, IInv, TypeOK
<1>7. CASE \E account \in Accounts : invalidate(account)
  BY <1>1, <1>7, InvalidateIInv
<1>8. CASE (\E p \in Names : Run(p)) \/ Tick \/ UNCHANGED vars
  <2>1. UNCHANGED <<proposals, approvals, invalidations, consent>> /\ now' \in {now, now + 1}
    BY <1>8 DEF Run, Tick, vars
  <2>2. TimesPast'
    <3>1. now \in Nat /\ now' >= now
      BY <2>1 DEF IInv, TypeOK
    <3>2. \A p \in Names : \A a \in approvals[p].provided : a.time \in Nat
      BY DEF IInv, TypeOK, Rows
    <3>3. \A x \in Accounts : invalidations[x] # NoTime => invalidations[x] \in Nat
      BY DEF IInv, TypeOK
    <3> QED
      BY <1>1, <2>1, <3>1, <3>2, <3>3 DEF IInv, TimesPast, TypeOK
  <2>3. Apart' /\ CountedIsConsent'
    BY <2>1, Z3T(30) DEF IInv, Apart, CountedIsConsent, Counted, Counts, LevelsOf
  <2> QED
    BY <1>1, <2>2, <2>3 DEF IInv
<1> QED
  BY <1>2, <1>3, <1>4, <1>5, <1>6, <1>7, <1>8 DEF Next

THEOREM SpecIInv == Spec => []IInv
BY InitIInv, NextIInv, PTL DEF Spec

\* The tables of eosio.msig keep their types, and rows of approvals come and
\* go with their proposal.
THEOREM TablesTyped == Spec => []TypeOK
<1>1. IInv => TypeOK
  BY DEF IInv
<1> QED
  BY SpecIInv, <1>1, PTL

\* In every behaviour an approval that counts towards exec is one that was
\* given for this very proposal and stands.
THEOREM OnlyConsentCounts == Spec => []CountedIsConsent
<1>1. IInv => CountedIsConsent
  BY DEF IInv
<1> QED
  BY SpecIInv, <1>1, PTL

-----------------------------------------------------------------------------
(* Msig implements Consent                                                 *)

Standing == [p \in Names |-> Counted(p)]
Sent == [p \in Names |-> deferred[p].trx]

LEMMA CountedLevels == ASSUME TypeOK, NEW p \in Names PROVE Counted(p) \subseteq Levels
BY DEF TypeOK, Rows, Counted, LevelsOf

LEMMA InitRefines == Init => Promise!Init
<1> SUFFICES ASSUME Init PROVE Promise!Init
  OBVIOUS
<1>1. Standing \in [Names -> SUBSET Levels]
  BY InitTypes, CountedLevels DEF Standing
<1>2. \A p \in Names : deferred[p].trx = NoTrx
  BY DEF Init, NoSend
<1> QED
  BY <1>1, <1>2 DEF Init, Promise!Init, Standing

\* What stands behind the other proposals does not change with one.
LEMMA StandingChanged ==
    ASSUME NEW p \in Names, UNCHANGED invalidations,
           \A q \in Names \ {p} : approvals'[q] = approvals[q]
    PROVE  Standing' = [Standing EXCEPT ![p] = Counted(p)']
<1>1. ASSUME NEW q \in Names \ {p} PROVE Counted(q)' = Counted(q)
  BY DEF Counted, Counts
<1> QED
  BY <1>1 DEF Standing

\* A row without approvals has nobody behind it.
LEMMA NobodyStands ==
    ASSUME NEW p \in Names, UNCHANGED invalidations, approvals'[p].provided = {},
           \A q \in Names \ {p} : approvals'[q] = approvals[q]
    PROVE  Standing' = [Standing EXCEPT ![p] = {}]
<1>1. Counted(p)' = {}
  BY DEF Counted, LevelsOf
<1> QED
  BY <1>1, StandingChanged

LEMMA ProposeRefines ==
    ASSUME IInv, NEW p \in Names, NEW requested \in SUBSET Levels, NEW trx \in Trxs,
           propose(p, requested, trx)
    PROVE  Promise!Propose(p, trx)
<1>1. approvals'[p].provided = {} /\ \A q \in Names \ {p} : approvals'[q] = approvals[q]
  BY RowTypes DEF propose, IInv, TypeOK, NoRow
<1>2. Standing' = [Standing EXCEPT ![p] = {}]
  BY <1>1, NobodyStands DEF propose
<1>3. UNCHANGED Sent
  BY DEF propose, Sent
<1> QED
  BY <1>2, <1>3 DEF propose, Promise!Propose, Standing, Sent

\* An approval that does not count, as its account has invalidated in the
\* same block or the proposal is old, changes nothing of what is promised.
LEMMA ApproveRefines ==
    ASSUME IInv, NEW p \in Names, NEW level \in Levels, NEW hash \in Trxs \cup {NoTrx},
           approve(p, level, hash)
    PROVE  Promise!Join(p, level) \/ UNCHANGED Promise!vars
<1> DEFINE new == [level |-> level, time |-> IF approvals[p].is_old THEN 0 ELSE now]
<1>1. approvals[p] \in Rows /\ UNCHANGED <<invalidations, proposals, deferred>>
  BY DEF approve, IInv, TypeOK
<1>2. /\ approvals'[p] = [approvals[p] EXCEPT !.requested = @ \ {level},
                                              !.provided = @ \cup {new}]
      /\ \A q \in Names \ {p} : approvals'[q] = approvals[q]
  BY DEF approve, IInv, TypeOK
<1>3. approvals'[p].is_old = approvals[p].is_old /\ approvals'[p].provided = approvals[p].provided \cup {new}
  BY <1>1, <1>2 DEF Rows
<1>4. proposals[p] # NoTrx
  BY RowTypes DEF approve, IInv, TypeOK
<1>5. \A a : Counts(p, a)' <=> Counts(p, a)
  BY <1>1, <1>3 DEF Counts
<1>6. new.level = level
  OBVIOUS
<1> HIDE DEF new
<1>7. Standing' = [Standing EXCEPT ![p] = Counted(p)']
  BY <1>1, <1>2, StandingChanged
<1>8. Standing \in [Names -> SUBSET Levels] /\ Standing[p] = Counted(p)
  BY CountedLevels DEF IInv, Standing
<1>9. UNCHANGED Sent
  BY <1>1 DEF Sent
<1>10. CASE Counts(p, new)
  <2>1. Counted(p)' = LevelsOf({a \in approvals[p].provided : Counts(p, a)} \cup {new})
    BY <1>3, <1>5, <1>10 DEF Counted
  <2>2. Counted(p)' = Counted(p) \cup {level}
    BY <1>6, <2>1, LevelsAdded DEF Counted
  <2>3. Promise!Join(p, level)
    BY <1>1, <1>4, <1>7, <1>8, <1>9, <2>2 DEF Promise!Join, Standing, Sent
  <2> QED
    BY <2>3
<1>11. CASE ~Counts(p, new)
  <2>1. Counted(p)' = Counted(p)
    BY <1>3, <1>5, <1>11 DEF Counted
  <2>2. UNCHANGED Standing
    BY <1>7, <1>8, <2>1
  <2> QED
    BY <1>1, <1>9, <2>2 DEF Promise!vars, Standing, Sent
<1> QED
  BY <1>10, <1>11

LEMMA UnapproveRefines ==
    ASSUME IInv, NEW p \in Names, NEW level \in Levels, unapprove(p, level)
    PROVE  \E gone \in [Names -> SUBSET Levels] : Promise!Leave(gone)
<1> DEFINE gone == [q \in Names |-> IF q = p THEN {level} ELSE {}]
<1>1. /\ UNCHANGED <<invalidations, proposals, deferred>>
      /\ \A q \in Names \ {p} : approvals'[q] = approvals[q]
  BY DEF unapprove, IInv, TypeOK
<1>2. Standing' = [Standing EXCEPT ![p] = Counted(p) \ {level}]
  BY <1>1, StandingChanged, CountedWithout
<1>3. Standing' = [q \in Names |-> Standing[q] \ gone[q]]
  BY <1>2 DEF Standing
<1>4. gone \in [Names -> SUBSET Levels] /\ UNCHANGED Sent
  BY <1>1 DEF Sent
<1> HIDE DEF gone
<1>5. Promise!Leave(gone)
  BY <1>1, <1>3, <1>4 DEF Promise!Leave, Standing, Sent
<1> QED
  BY <1>4, <1>5

LEMMA CancelRefines ==
    ASSUME IInv, NEW p \in Names, NEW canceler \in Accounts, cancel(p, canceler)
    PROVE  Promise!Drop(p)
<1>1. approvals'[p].provided = {} /\ \A q \in Names \ {p} : approvals'[q] = approvals[q]
  BY RowTypes DEF cancel, IInv, TypeOK
<1>2. Standing' = [Standing EXCEPT ![p] = {}]
  BY <1>1, NobodyStands DEF cancel
<1>3. UNCHANGED Sent
  BY DEF cancel, Sent
<1> QED
  BY <1>2, <1>3 DEF cancel, Promise!Drop, Standing, Sent

LEMMA ExecRefines ==
    ASSUME IInv, NEW p \in Names, exec(p)
    PROVE  Promise!Send(p)
<1>1. approvals'[p].provided = {} /\ \A q \in Names \ {p} : approvals'[q] = approvals[q]
  BY RowTypes DEF exec, IInv, TypeOK
<1>2. Standing' = [Standing EXCEPT ![p] = {}] /\ Standing[p] = Counted(p)
  BY <1>1, NobodyStands DEF exec, Standing
<1>3. Sent[p] = NoTrx
  BY DEF exec, Sent, NoSend
<1>4. Sent' = [Sent EXCEPT ![p] = proposals[p]]
  BY DEF exec, Sent, IInv, TypeOK
<1> QED
  BY <1>2, <1>3, <1>4 DEF exec, Promise!Send, Standing, Sent

LEMMA InvalidateRefines ==
    ASSUME IInv, NEW account \in Accounts, invalidate(account)
    PROVE  \E gone \in [Names -> SUBSET Levels] : Promise!Leave(gone)
<1> DEFINE gone == [q \in Names |-> Counted(q) \ Counted(q)']
<1>1. /\ UNCHANGED <<now, proposals, approvals, deferred>>
      /\ \A x \in Accounts \ {account} : invalidations'[x] = invalidations[x]
  BY DEF invalidate, IInv, TypeOK
<1>2. ASSUME NEW q \in Names, NEW l \in Counted(q)' PROVE l \in Counted(q)
  <2>1. PICK a \in approvals[q].provided : Counts(q, a)' /\ a.level = l
    BY <1>1, <1>2 DEF Counted, LevelsOf
  <2>2. Actor[a.level] # account
    BY <2>1, Invalidated
  <2>3. Actor[a.level] \in Accounts
    <3>1. approvals[q] \in Rows
      BY DEF IInv, TypeOK
    <3>2. a.level \in Levels
      BY <3>1 DEF Rows
    <3> QED
      BY <3>2, MsigAssumption
  <2>4. Counts(q, a)
    BY <1>1, <2>1, <2>2, <2>3 DEF Counts
  <2> QED
    BY <2>1, <2>4 DEF Counted, LevelsOf
<1>3. Standing' = [q \in Names |-> Standing[q] \ gone[q]]
  BY <1>2 DEF Standing
<1>4. gone \in [Names -> SUBSET Levels] /\ UNCHANGED Sent
  BY <1>1, CountedLevels DEF Sent, IInv
<1> HIDE DEF gone
<1>5. Promise!Leave(gone)
  BY <1>1, <1>3, <1>4 DEF Promise!Leave, Standing, Sent
<1> QED
  BY <1>4, <1>5

LEMMA NextRefines == IInv /\ [Next]_vars => [Promise!Next]_(Promise!vars)
<1> SUFFICES ASSUME IInv, [Next]_vars
             PROVE  Promise!Next \/ UNCHANGED Promise!vars
  OBVIOUS
<1>1. CASE \E p \in Names, requested \in SUBSET Levels, trx \in Trxs : propose(p, requested, trx)
  BY <1>1, ProposeRefines DEF Promise!Next
<1>2. CASE \E p \in Names, level \in Levels, hash \in Trxs \cup {NoTrx} : approve(p, level, hash)
  BY <1>2, ApproveRefines DEF Promise!Next
<1>3. CASE \E p \in Names, level \in Levels : unapprove(p, level)
  BY <1>3, UnapproveRefines DEF Promise!Next
<1>4. CASE \E p \in Names, canceler \in Accounts : cancel(p, canceler)
  BY <1>4, CancelRefines DEF Promise!Next
<1>5. CASE \E p \in Names : exec(p)
  BY <1>5, ExecRefines DEF Promise!Next
<1>6. CASE \E account \in Accounts : invalidate(account)
  BY <1>6, InvalidateRefines DEF Promise!Next
<1>7. CASE \E p \in Names : Run(p)
  <2>1. PICK p \in Names : Run(p)
    BY <1>7
  <2>2. Sent' = [Sent EXCEPT ![p] = NoTrx]
    BY <2>1 DEF Run, Sent, NoSend, IInv, TypeOK
  <2>3. UNCHANGED Standing
    BY <2>1 DEF Run, Standing, Counted, Counts
  <2>4. Promise!Run(p)
    BY <2>1, <2>2, <2>3 DEF Run, Promise!Run, Standing, Sent
  <2> QED
    BY <2>4 DEF Promise!Next
<1>8. CASE Tick \/ UNCHANGED vars
  <2>1. UNCHANGED <<proposals, approvals, invalidations, deferred>>
    BY <1>8 DEF Tick, vars
  <2>2. UNCHANGED Standing /\ UNCHANGED Sent
    BY <2>1 DEF Standing, Sent, Counted, Counts
  <2> QED
    BY <2>1, <2>2 DEF Promise!vars, Standing, Sent
<1> QED
  BY <1>1, <1>2, <1>3, <1>4, <1>5, <1>6, <1>7, <1>8 DEF Next

\* Every behaviour of eosio.msig is one of Consent: a transaction is sent once
\* for a proposal, with the authority of those who then stand behind it.
THEOREM MsigImplements == Spec => ImplementsConsent
BY SpecIInv, InitRefines, NextRefines, PTL DEF Spec, ImplementsConsent, Promise!Spec
=============================================================================
