-------------------------- MODULE HundoAlertsProofs --------------------------
(***************************************************************************)
(* For every set of areas and every number of saves, faults and changes:   *)
(* one DM per revision, and no rules for settings the player was not told. *)
(*                                                                         *)
(* The argument has three layers. JournalInv: a revision is posted after   *)
(* its row was inserted, by who inserted it, and a row is inserted once.   *)
(* ConsentInv: what the database, the memory of the bot and what it has    *)
(* read say of a confirmation stands for a DM that arrived, so the rules   *)
(* built from it do too. ReadyInv: before the first fault, the rules, the  *)
(* cache and what the site shows are of the revision they stand for.       *)
(***************************************************************************)
EXTENDS HundoAlerts, TLAPS

USE HundoAlertsAssumption DEF HundoAlertsAssumption

Statuses == {"none", "sending", "sent", "refused", "uncertain"}

Counters ==
    /\ rev \in 0..MaxRevisions /\ confirmed \in 0..rev /\ refused \in 0..rev
    /\ journal \in [Revisions -> Statuses]
    /\ told \in [Revisions -> Nat]

Journalled ==
    /\ \A r \in Revisions : told[r] <= 1
    /\ \A r \in Revisions : journal[r] = "none" => told[r] = 0
    /\ at = "post" =>
          snap.rev \in Revisions /\ journal[snap.rev] = "sending" /\ told[snap.rev] = 0

JournalInv == Counters /\ Journalled

LEMMA InitJournal == Init => JournalInv
BY DEF Init, JournalInv, Counters, Journalled, Statuses, Revisions, Setting

\* Steps that leave the settings, the acknowledgements and the journal alone, and
\* do not begin a post.
LEMMA QuietJournal ==
    ASSUME JournalInv,
           UNCHANGED <<rev, acks, journal, told>>,
           at' # "post" \/ (at' = at /\ snap' = snap)
    PROVE  JournalInv'
BY DEF JournalInv, Counters, Journalled, acks

LEMMA RecordedKeeps ==
    ASSUME JournalInv, NEW r, NEW d, Recorded(r, d), UNCHANGED rev
    PROVE  confirmed' \in 0..rev /\ refused' \in 0..rev
BY DEF JournalInv, Counters, Recorded, acks, Larger

LEMMA NextJournal == JournalInv /\ [Next]_vars => JournalInv'
<1> SUFFICES ASSUME JournalInv, [Next]_vars PROVE JournalInv'
  OBVIOUS
<1>1. CASE Wake
  BY <1>1, QuietJournal DEF Wake, site, acks, dms
<1>2. CASE Cleanup
  BY <1>2, QuietJournal DEF Cleanup, site, acks, dms
<1>3. CASE Reload
  BY <1>3, QuietJournal DEF Reload, site, acks, dms
<1>4. CASE Read
  BY <1>4, QuietJournal DEF Read, site, acks, dms
<1>5. CASE Skip
  BY <1>5, QuietJournal DEF Skip, site, acks, dms
<1>6. CASE Again
  BY <1>6, QuietJournal DEF Again, site, acks, dms, Unsettled, Confirming
<1>7. CASE Reread
  BY <1>7, QuietJournal DEF Reread, site, acks, dms
<1>8. CASE Idles
  BY <1>8, QuietJournal DEF Idles, site, acks, dms
<1>9. CASE Create
  BY <1>9, QuietJournal DEF Create, site, acks, dms, Syncing
<1>10. CASE Stopped
  BY <1>10, QuietJournal DEF Stopped, site, acks, dms, Syncing
<1>11. CASE Unchanged
  BY <1>11, QuietJournal DEF Unchanged, site, acks, dms, Syncing
<1>12. CASE Rebuild
  BY <1>12, QuietJournal DEF Rebuild, site, acks, dms, Syncing
<1>13. CASE Report
  BY <1>13, QuietJournal DEF Report, site, acks, dms
<1>14. CASE Crash
  BY <1>14, QuietJournal DEF Crash, site, acks, dms
<1>15. CASE Change
  BY <1>15, QuietJournal DEF Change, site, acks, dms
<1>16. CASE Collect
  BY <1>16, QuietJournal DEF Collect, site, acks, dms
<1>17. CASE AreaChange
  BY <1>17, QuietJournal DEF AreaChange, site, acks, dms
<1>18. CASE Settle
  BY <1>18, QuietJournal DEF Settle, site, acks, dms
<1>19. CASE Ages
  BY <1>19, QuietJournal DEF Ages, site, acks, dms
<1>20. CASE Expire
  BY <1>20, QuietJournal DEF Expire, site, acks, dms
<1>21. CASE OwnReload
  BY <1>21, QuietJournal DEF OwnReload, site, acks, dms
<1>30. CASE Acknowledge
  <2>1. UNCHANGED <<rev, journal, told>> /\ at' = "reread" /\ (UNCHANGED acks \/ Recorded(snap.rev, TRUE))
    BY <1>30 DEF Acknowledge, site, dms, acks
  <2> QED
    BY <2>1, RecordedKeeps DEF JournalInv, Counters, Journalled, acks
<1>31. CASE Record
  <2>1. UNCHANGED <<rev, journal, told>> /\ at' = "reread"
        /\ (UNCHANGED acks \/ Recorded(outcome.rev, outcome.delivered))
    BY <1>31 DEF Record, site, dms, acks
  <2> QED
    BY <2>1, RecordedKeeps DEF JournalInv, Counters, Journalled, acks
<1>32. CASE Claim
  BY <1>32 DEF Claim, Claimable, Larger, JournalInv, Counters, Journalled, Statuses, Revisions, site, acks
<1>37. CASE NoChannel
  BY <1>37, QuietJournal DEF NoChannel, site, acks, dms
<1>33. CASE Recover
  BY <1>33 DEF Recover, Overdue, StillSending, JournalInv, Counters, Journalled, Statuses, site, acks
<1>34. CASE Post
  BY <1>34 DEF Post, Accepted, Lost, JournalInv, Counters, Journalled, Statuses, site, acks
<1>35. CASE Save
  BY <1>35 DEF Save, JournalInv, Counters, Journalled, acks, dms
<1>36. CASE UNCHANGED vars
  BY <1>36, QuietJournal DEF vars, site, dms
<1> QED
  BY <1>1, <1>2, <1>3, <1>4, <1>5, <1>6, <1>7, <1>8, <1>9, <1>10, <1>11, <1>12, <1>13, <1>14, <1>15, <1>16, <1>17, <1>18, <1>19, <1>20, <1>21, <1>30, <1>31, <1>32, <1>33, <1>34, <1>35, <1>36, <1>37 DEF Next, Tick, Outside

\* One DM per revision, for any number of crashes, lost answers and failed writes.
THEOREM OneDMPerRevision == Spec => []OneDMEach
<1>1. JournalInv => OneDMEach
  BY DEF JournalInv, Journalled, OneDMEach
<1> QED
  BY <1>1, InitJournal, NextJournal, PTL DEF Spec

-------------------------------------------------------------------------------
\* What each revision asks for, and whether one of the first n arrived and said so.
Codes == [r \in Revisions |-> Code(asked[r])]
Heard(t, k, n, code) == \E r \in 1..n : t[r] > 0 /\ k[r] = code

Evidence ==
    /\ \A r \in Revisions : journal[r] = "sent" => told[r] > 0
    /\ outcome.rev \in 0..rev /\ outcome.delivered \in BOOLEAN
    /\ outcome.rev > 0 /\ outcome.delivered => told[outcome.rev] > 0

Faithful ==
    /\ set \in Setting /\ asked \in [Revisions -> Setting]
    /\ rev > 0 => asked[rev] = set
    /\ snap.rev \in 0..rev /\ snap.confirmed \in 0..snap.rev
    /\ snap.rev > 0 => snap.set = asked[snap.rev]

Consent ==
    /\ confirmed > 0 => Heard(told, Codes, confirmed, said) /\ said = Codes[confirmed]
    /\ snap.confirmed > 0 => Heard(told, Codes, snap.confirmed, snap.said)
    /\ snap.confirmed > 0 /\ snap.confirmed = snap.rev => snap.said = Codes[snap.rev]
    /\ \A x \in rules \union loaded : Heard(told, Codes, rev, Chosen(x.chosen))

ConsentInv ==
    /\ JournalInv /\ Evidence /\ Faithful
    /\ areaChanges \in Nat
    /\ areaChanges = 0 => Consent

LEMMA InitConsent == Init => ConsentInv
<1> SUFFICES ASSUME Init PROVE ConsentInv
  OBVIOUS
<1>1. Evidence
  BY DEF Init, Evidence, NoOutcome
<1>2. Faithful
  BY DEF Init, Faithful, Setting, Nothing
<1>3. Consent
  BY DEF Init, Consent, Nothing
<1> QED
  BY <1>1, <1>2, <1>3, InitJournal DEF ConsentInv, Init

LEMMA NoOutcomeIsNone == NoOutcome.rev = 0 /\ NoOutcome.delivered \in BOOLEAN
BY DEF NoOutcome

LEMMA HeardStays ==
    ASSUME NEW t \in [Revisions -> Nat], NEW u \in [Revisions -> Nat], NEW k, NEW l,
           NEW n \in 0..MaxRevisions, NEW m \in 0..MaxRevisions, n <= m,
           \A r \in Revisions : u[r] >= t[r],
           \A r \in 1..n : l[r] = k[r],
           NEW code, Heard(t, k, n, code)
    PROVE  Heard(u, l, m, code)
<1>1. PICK r \in 1..n : t[r] > 0 /\ k[r] = code
  BY DEF Heard
<1>2. r \in 1..m /\ r \in Revisions
  BY DEF Revisions
<1>3. u[r] > 0 /\ l[r] = code
  BY <1>1, <1>2
<1> QED
  BY <1>2, <1>3 DEF Heard

LEMMA CodesStay ==
    ASSUME UNCHANGED active,
           NEW r \in Revisions, asked'[r] = asked[r]
    PROVE  Codes'[r] = Codes[r]
BY DEF Codes, Code, Chosen

\* Steps that leave the settings, the acknowledgements and the journal alone.
LEMMA QuietConsent ==
    ASSUME ConsentInv, JournalInv',
           UNCHANGED <<set, asked, rev, acks, journal, told>>,
           areaChanges' \in Nat,
           areaChanges' = 0 => areaChanges = 0 /\ UNCHANGED active,
           snap' \in {snap, Row, Nothing},
           outcome' \in {outcome, NoOutcome},
           rules' \in {rules, {}},
           loaded' \in {loaded, rules}
    PROVE  ConsentInv'
<1>1. Evidence'
  <2>1. CASE outcome' = outcome
    BY <2>1 DEF ConsentInv, Evidence
  <2>2. CASE outcome' = NoOutcome
    BY <2>2, NoOutcomeIsNone DEF ConsentInv, Evidence, JournalInv, Counters
  <2> QED
    BY <2>1, <2>2
<1>2. Faithful'
  BY DEF ConsentInv, Faithful, Row, Nothing, JournalInv, Counters, acks
<1>3. ASSUME areaChanges' = 0 PROVE Consent'
  <2>1. Consent /\ Codes' = Codes /\ \A A : Chosen(A)' = Chosen(A)
    BY <1>3 DEF ConsentInv, Codes, Code, Chosen
  <2>2. confirmed' = confirmed /\ said' = said
    BY DEF acks
  <2>3. snap'.confirmed > 0 => Heard(told, Codes, snap'.confirmed, snap'.said)
    BY <2>1 DEF Consent, Row, Nothing
  <2>4. snap'.confirmed > 0 /\ snap'.confirmed = snap'.rev => snap'.said = Codes[snap'.rev]
    BY <2>1 DEF Consent, Row, Nothing
  <2>5. \A x \in rules' \union loaded' : Heard(told, Codes, rev, Chosen(x.chosen))
    BY <2>1 DEF Consent
  <2> QED
    BY <2>1, <2>2, <2>3, <2>4, <2>5 DEF Consent
<1> QED
  BY <1>1, <1>2, <1>3 DEF ConsentInv

\* A confirmation of a revision that was told, or whose settings were told before.
LEMMA RecordedConsent ==
    ASSUME ConsentInv, JournalInv',
           NEW r \in 0..rev, NEW d \in BOOLEAN,
           UNCHANGED acks \/ Recorded(r, d),
           r > 0 /\ d /\ areaChanges = 0 => Heard(told, Codes, r, Codes[r]),
           UNCHANGED <<set, asked, rev, journal, told, areaChanges, active, rules, loaded, snap>>,
           outcome' \in {outcome, NoOutcome}
    PROVE  ConsentInv'
<1>1. Evidence' /\ Faithful'
  <2>1. CASE outcome' = outcome
    BY <2>1 DEF ConsentInv, Evidence, Faithful
  <2>2. CASE outcome' = NoOutcome
    BY <2>2, NoOutcomeIsNone DEF ConsentInv, Evidence, Faithful, JournalInv, Counters
  <2> QED
    BY <2>1, <2>2
<1>2. ASSUME areaChanges' = 0 PROVE Consent'
  <2>1. Consent /\ Codes' = Codes /\ \A A : Chosen(A)' = Chosen(A)
    BY <1>2 DEF ConsentInv, Codes, Code, Chosen
  <2>2. confirmed' > 0 => Heard(told, Codes, confirmed', said') /\ said' = Codes[confirmed']
    <3>1. CASE UNCHANGED acks
      BY <2>1, <3>1 DEF Consent, acks
    <3>2. CASE Recorded(r, d)
      <4>1. CASE confirmed' = confirmed /\ said' = said
        BY <2>1, <4>1 DEF Consent
      <4>2. CASE rev = r /\ Larger(confirmed, refused) < r /\ d /\ confirmed' = r /\ said' = Code(asked[r])
        <5>1. r > 0 /\ r \in Revisions
          BY <4>2 DEF ConsentInv, JournalInv, Counters, Larger, Revisions
        <5>2. said' = Codes[r]
          BY <4>2, <5>1 DEF Codes
        <5> QED
          BY <1>2, <4>2, <5>1, <5>2
      <4> QED
        BY <3>2, <4>1, <4>2 DEF Recorded, acks
    <3> QED
      BY <3>1, <3>2
  <2> QED
    BY <2>1, <2>2 DEF Consent
<1> QED
  BY <1>1, <1>2 DEF ConsentInv

LEMMA AcknowledgeConsent == ConsentInv /\ JournalInv' /\ Acknowledge => ConsentInv'
<1> SUFFICES ASSUME ConsentInv, JournalInv', Acknowledge PROVE ConsentInv'
  OBVIOUS
<1>1. snap.rev \in 0..rev /\ SettledBack(snap)
  BY DEF ConsentInv, Faithful, Acknowledge
<1>2. ASSUME areaChanges = 0, snap.rev > 0 PROVE Heard(told, Codes, snap.rev, Codes[snap.rev])
  <2>1. snap.rev \in Revisions /\ snap.rev \in 0..MaxRevisions
    BY <1>1, <1>2 DEF ConsentInv, JournalInv, Counters, Revisions
  <2>2. snap.said = Codes[snap.rev]
    BY <1>1, <1>2, <2>1 DEF SettledBack, ConsentInv, Faithful, Codes
  <2>3. Heard(told, Codes, snap.confirmed, snap.said)
    BY <1>1, <1>2 DEF ConsentInv, Consent, SettledBack
  <2>4. snap.confirmed \in 0..MaxRevisions /\ snap.confirmed <= snap.rev
    BY <2>1 DEF ConsentInv, Faithful
  <2>5. told \in [Revisions -> Nat]
    BY DEF ConsentInv, JournalInv, Counters
  <2> QED
    BY <2>1, <2>2, <2>3, <2>4, <2>5, HeardStays
<1>3. UNCHANGED <<set, asked, rev, journal, told, areaChanges, active, rules, loaded, snap, outcome>>
  BY DEF Acknowledge, site, dms, poracle, memory, world
<1>4. UNCHANGED acks \/ Recorded(snap.rev, TRUE)
  BY DEF Acknowledge, acks
<1> QED
  BY <1>1, <1>2, <1>3, <1>4, RecordedConsent

LEMMA RecordConsent == ConsentInv /\ JournalInv' /\ Record => ConsentInv'
<1> SUFFICES ASSUME ConsentInv, JournalInv', Record PROVE ConsentInv'
  OBVIOUS
<1>1. outcome.rev \in 0..rev /\ outcome.delivered \in BOOLEAN
  BY DEF ConsentInv, Evidence
<1>2. ASSUME outcome.rev > 0, outcome.delivered PROVE Heard(told, Codes, outcome.rev, Codes[outcome.rev])
  <2>1. told[outcome.rev] > 0 /\ outcome.rev \in 1..outcome.rev
    BY <1>1, <1>2 DEF ConsentInv, Evidence, JournalInv, Counters
  <2> QED
    BY <2>1 DEF Heard
<1>3. /\ UNCHANGED <<set, asked, rev, journal, told, areaChanges, active, rules, loaded, snap>>
      /\ outcome' \in {outcome, NoOutcome}
  BY DEF Record, site, dms, poracle, world
<1>4. UNCHANGED acks \/ Recorded(outcome.rev, outcome.delivered)
  BY DEF Record, acks
<1> QED
  BY <1>1, <1>2, <1>3, <1>4, RecordedConsent

\* Rules are rebuilt for an active player, whose settings were told.
LEMMA RebuildConsent == ConsentInv /\ JournalInv' /\ Rebuild => ConsentInv'
<1> SUFFICES ASSUME ConsentInv, JournalInv', Rebuild PROVE ConsentInv'
  OBVIOUS
<1>1. /\ UNCHANGED <<set, asked, rev, confirmed, refused, said, journal, told, areaChanges, active>>
      /\ UNCHANGED <<snap, outcome, loaded>>
      /\ rules' \in {rules, Built} /\ IsActive(snap)
  BY DEF Rebuild, Syncing, site, acks, dms, world
<1>2. Evidence' /\ Faithful'
  BY <1>1 DEF ConsentInv, Evidence, Faithful
<1>3. ASSUME areaChanges = 0 PROVE Consent'
  <2>1. Consent /\ Codes' = Codes /\ \A A : Chosen(A)' = Chosen(A)
    BY <1>1, <1>3 DEF ConsentInv, Codes, Code, Chosen
  <2>2. \A x \in Built : Heard(told, Codes, rev, Chosen(x.chosen))
    <3>1. snap.rev \in Revisions /\ snap.set.on
      BY <1>1 DEF IsActive, ConsentInv, JournalInv, Counters, Faithful, Revisions
    <3>2. Code(snap.set) = Chosen(snap.set.areas)
      BY <3>1 DEF Code
    <3>3. Codes[snap.rev] = Code(snap.set)
      BY <3>1 DEF ConsentInv, Faithful, Codes, Revisions
    <3>4. snap.confirmed > 0 /\ snap.said = Code(snap.set)
      BY <1>1, <2>1, <3>1, <3>3 DEF IsActive, SettledBack, Consent
    <3>5. Heard(told, Codes, snap.confirmed, Chosen(snap.set.areas))
      BY <2>1, <3>2, <3>4 DEF Consent
    <3>6. /\ snap.confirmed \in 0..MaxRevisions /\ rev \in 0..MaxRevisions
          /\ snap.confirmed <= rev /\ told \in [Revisions -> Nat]
      BY DEF ConsentInv, Faithful, JournalInv, Counters
    <3>7. Heard(told, Codes, rev, Chosen(snap.set.areas))
      BY <3>5, <3>6 DEF Heard
    <3> QED
      BY <3>7 DEF Built
  <2>3. \A x \in rules' \union loaded' : Heard(told, Codes, rev, Chosen(x.chosen))
    BY <1>1, <2>1, <2>2 DEF Consent
  <2> QED
    BY <1>1, <2>1, <2>3 DEF Consent
<1> QED
  BY <1>1, <1>2, <1>3 DEF ConsentInv

\* The steps that deliver: what was told stays told.
LEMMA PostConsent == ConsentInv /\ JournalInv' /\ (NoChannel \/ Claim \/ Recover \/ Post) => ConsentInv'
<1> SUFFICES ASSUME ConsentInv, JournalInv', NoChannel \/ Claim \/ Recover \/ Post PROVE ConsentInv'
  OBVIOUS
<1>1. /\ UNCHANGED <<set, asked, rev, confirmed, refused, said, areaChanges, active, snap, rules, loaded>>
  BY DEF NoChannel, Claim, Recover, Post, site, acks, dms, poracle, world
<1>2. \A r \in Revisions : told'[r] >= told[r]
  BY DEF NoChannel, Claim, Recover, Post, dms, Accepted, Lost, ConsentInv, JournalInv, Counters
<1>3. Evidence'
  <2>0. \A r \in Revisions : journal'[r] = "sent" => told'[r] > 0
    BY DEF NoChannel, Claim, Recover, Post, dms, Accepted, Lost, Overdue, ConsentInv, Evidence, JournalInv, Journalled, Counters
  <2>1. CASE outcome' = outcome
    BY <1>1, <1>2, <2>0, <2>1 DEF ConsentInv, Evidence, JournalInv, Counters, Revisions
  <2>2. ASSUME NEW d \in BOOLEAN, outcome' = [rev |-> snap.rev, delivered |-> d], d => told'[snap.rev] > 0
        PROVE  Evidence'
    <3>1. outcome'.rev = snap.rev /\ outcome'.delivered = d
      BY <2>2
    <3> QED
      BY <1>1, <2>0, <2>2, <3>1 DEF ConsentInv, Evidence, Faithful
  <2>3. \/ outcome' = outcome
        \/ outcome' = [rev |-> snap.rev, delivered |-> TRUE] /\ told'[snap.rev] > 0
        \/ outcome' = [rev |-> snap.rev, delivered |-> FALSE]
    <3>1. CASE Claim
      BY <3>1 DEF Claim, memory
    <3>4. CASE NoChannel
      BY <3>4 DEF NoChannel
    <3>2. CASE Recover
      <4>1. snap.rev \in Revisions
        BY <3>2 DEF Recover, Unsettled, Confirming, Due, Larger, ConsentInv, Faithful, JournalInv, Counters, Revisions
      <4> QED
        BY <3>2, <4>1 DEF Recover, ConsentInv, Evidence
    <3>3. CASE Post
      BY <3>3 DEF Post, Accepted, Lost, ConsentInv, JournalInv, Journalled, Counters
    <3> QED
      BY <3>1, <3>2, <3>3, <3>4
  <2> QED
    BY <2>1, <2>2, <2>3
<1>4. Faithful'
  BY <1>1 DEF ConsentInv, Faithful
<1>5. ASSUME areaChanges = 0 PROVE Consent'
  <2>1. Consent /\ Codes' = Codes /\ \A A : Chosen(A)' = Chosen(A)
    BY <1>1, <1>5 DEF ConsentInv, Codes, Code, Chosen
  <2>2. /\ told \in [Revisions -> Nat] /\ told' \in [Revisions -> Nat]
        /\ rev \in 0..MaxRevisions /\ confirmed \in 0..MaxRevisions
        /\ snap.confirmed \in 0..MaxRevisions
    BY DEF ConsentInv, JournalInv, Counters, Faithful
  <2>3. ASSUME NEW n \in 0..MaxRevisions, NEW code, Heard(told, Codes, n, code)
        PROVE  Heard(told', Codes, n, code)
    <3>1. PICK r \in 1..n : told[r] > 0 /\ Codes[r] = code
      BY <2>3 DEF Heard
    <3>2. r \in Revisions
      BY DEF Revisions
    <3>3. told'[r] > 0
      BY <1>2, <2>2, <3>1, <3>2
    <3> QED
      BY <3>1, <3>3 DEF Heard
  <2> QED
    BY <1>1, <2>1, <2>2, <2>3 DEF Consent
<1> QED
  BY <1>1, <1>3, <1>4, <1>5 DEF ConsentInv

\* A save only adds a revision.
LEMMA SaveConsent == ConsentInv /\ JournalInv' /\ Save => ConsentInv'
<1> SUFFICES ASSUME ConsentInv, JournalInv', Save PROVE ConsentInv'
  OBVIOUS
<1>1. /\ UNCHANGED <<confirmed, refused, said, journal, told, areaChanges, active, snap, outcome, rules, loaded>>
      /\ rev < MaxRevisions /\ rev' = rev + 1 /\ set' \in Setting
      /\ asked' = [asked EXCEPT ![rev + 1] = set']
  BY DEF Save, acks, dms, poracle, memory, world
<1>2. /\ rev \in 0..MaxRevisions /\ rev' \in 0..MaxRevisions /\ confirmed \in 0..rev
      /\ told \in [Revisions -> Nat] /\ asked \in [Revisions -> Setting]
      /\ snap.rev \in 0..rev /\ snap.confirmed \in 0..snap.rev
  BY <1>1 DEF ConsentInv, JournalInv, Counters, Faithful
<1>3. Evidence' /\ Faithful'
  BY <1>1, <1>2 DEF ConsentInv, Evidence, Faithful, Revisions
<1>4. ASSUME areaChanges = 0 PROVE Consent'
  <2>1. Consent /\ \A A : Chosen(A)' = Chosen(A)
    BY <1>1, <1>4 DEF ConsentInv, Chosen
  <2>2. \A r \in 1..rev : Codes'[r] = Codes[r]
    <3> TAKE r \in 1..rev
    <3>1. r \in Revisions /\ asked'[r] = asked[r]
      BY <1>1, <1>2 DEF Revisions
    <3> QED
      BY <1>1, <3>1, CodesStay
  <2>3. ASSUME NEW n \in 0..rev, NEW m \in n..MaxRevisions, NEW code, Heard(told, Codes, n, code)
        PROVE  Heard(told, Codes', m, code)
    <3>1. PICK r \in 1..n : told[r] > 0 /\ Codes[r] = code
      BY <2>3 DEF Heard
    <3>2. r \in 1..rev /\ r \in 1..m
      BY <1>2
    <3> QED
      BY <2>2, <3>1, <3>2 DEF Heard
  <2>4. rev' \in rev..MaxRevisions /\ rev \in rev..MaxRevisions /\ rev \in 0..rev
    BY <1>1, <1>2
  <2> QED
    BY <1>1, <1>2, <2>1, <2>2, <2>3, <2>4 DEF Consent
<1> QED
  BY <1>1, <1>3, <1>4 DEF ConsentInv

LEMMA NextConsent == ConsentInv /\ [Next]_vars => ConsentInv'
<1> SUFFICES ASSUME ConsentInv, [Next]_vars PROVE ConsentInv'
  OBVIOUS
<1>0. JournalInv' /\ areaChanges \in Nat
  BY NextJournal DEF ConsentInv
<1>1. CASE Wake
  BY <1>0, <1>1, QuietConsent DEF Wake, site, acks, dms, poracle, memory, world
<1>2. CASE Cleanup
  BY <1>0, <1>2, QuietConsent DEF Cleanup, site, acks, dms, poracle, memory, world
<1>3. CASE Reload
  BY <1>0, <1>3, QuietConsent DEF Reload, site, acks, dms, poracle, memory, world
<1>4. CASE Read
  BY <1>0, <1>4, QuietConsent DEF Read, site, acks, dms, poracle, memory, world
<1>5. CASE Skip
  BY <1>0, <1>5, QuietConsent DEF Skip, site, acks, dms, poracle, memory, world
<1>6. CASE Again
  BY <1>0, <1>6, QuietConsent DEF Again, site, acks, dms, poracle, memory, world
<1>7. CASE Reread
  BY <1>0, <1>7, QuietConsent DEF Reread, site, acks, dms, poracle, memory, world
<1>8. CASE Idles
  BY <1>0, <1>8, QuietConsent DEF Idles, site, acks, dms, poracle, memory, world
<1>9. CASE Create
  BY <1>0, <1>9, QuietConsent DEF Create, site, acks, dms, poracle, memory, world
<1>10. CASE Stopped
  BY <1>0, <1>10, QuietConsent DEF Stopped, site, acks, dms, poracle, memory, world
<1>11. CASE Unchanged
  BY <1>0, <1>11, QuietConsent DEF Unchanged, site, acks, dms, poracle, memory, world
<1>12. CASE Report
  BY <1>0, <1>12, QuietConsent DEF Report, site, acks, dms, poracle, memory, world
<1>13. CASE Crash
  BY <1>0, <1>13, QuietConsent DEF Crash, site, acks, dms, poracle, memory, world
<1>14. CASE Change
  BY <1>0, <1>14, QuietConsent DEF Change, site, acks, dms, poracle, memory, world
<1>15. CASE Collect
  BY <1>0, <1>15, QuietConsent DEF Collect, site, acks, dms, poracle, memory, world
<1>16. CASE AreaChange
  BY <1>0, <1>16, QuietConsent DEF AreaChange, site, acks, dms, poracle, memory, world
<1>17. CASE Settle
  BY <1>0, <1>17, QuietConsent DEF Settle, site, acks, dms, poracle, memory, world
<1>18. CASE Ages
  BY <1>0, <1>18, QuietConsent DEF Ages, site, acks, dms, poracle, memory, world
<1>19. CASE Expire
  BY <1>0, <1>19, QuietConsent DEF Expire, site, acks, dms, poracle, memory, world
<1>20. CASE OwnReload
  BY <1>0, <1>20, QuietConsent DEF OwnReload, site, acks, dms, poracle, memory, world
<1>21. CASE UNCHANGED vars
  BY <1>0, <1>21, QuietConsent DEF vars, site, acks, dms, poracle, memory, world
<1> QED
  BY <1>0, <1>1, <1>2, <1>3, <1>4, <1>5, <1>6, <1>7, <1>8, <1>9, <1>10, <1>11, <1>12, <1>13, <1>14, <1>15, <1>16, <1>17, <1>18, <1>19, <1>20, <1>21,
     AcknowledgeConsent, RecordConsent, RebuildConsent, PostConsent, SaveConsent
     DEF Next, Tick, Outside

\* As long as the areas stay, Poracle works for no selection the player was not
\* told of.
THEOREM NoRulesUntold == Spec => []RulesWereTold
<1>1. ConsentInv => RulesWereTold
  <2> SUFFICES ASSUME ConsentInv, areaChanges = 0, NEW x \in rules \union loaded
               PROVE  \E r \in Revisions : told[r] > 0 /\ Code(asked[r]) = Chosen(x.chosen)
    BY DEF RulesWereTold
  <2>1. Heard(told, Codes, rev, Chosen(x.chosen))
    BY DEF ConsentInv, Consent
  <2> QED
    BY <2>1 DEF Heard, Codes, Revisions, ConsentInv, JournalInv, Counters
<1> QED
  BY <1>1, InitConsent, NextConsent, PTL DEF Spec

\* A stored confirmation stands for a DM that said those settings.
THEOREM ConfirmationsAreTrue == Spec => []ConfirmedWasTold
<1>1. ConsentInv => ConfirmedWasTold
  <2> SUFFICES ASSUME ConsentInv, areaChanges = 0, confirmed > 0
               PROVE  \E r \in 1..confirmed : told[r] > 0 /\ Code(asked[r]) = said
    BY DEF ConfirmedWasTold
  <2>1. Heard(told, Codes, confirmed, said)
    BY DEF ConsentInv, Consent
  <2> QED
    BY <2>1 DEF Heard, Codes, Revisions, ConsentInv, JournalInv, Counters
<1> QED
  BY <1>1, InitConsent, NextConsent, PTL DEF Spec
-------------------------------------------------------------------------------
\* ReadyIsTrue is about the time before the first fault, departure or change of
\* the registry. InForce is what "ready" stands for, and what the next tick must
\* find in order to leave the rules alone.
Calm == faults = 0 /\ changes = 0 /\ areaChanges = 0

Serves(L) == L # {} /\ \A x \in L : x.areas = Chosen(set.areas)
InForce   == set.on /\ IsActive(Row) /\ human = "on" /\ Serves(rules)

Present ==
    /\ member = TRUE /\ collects = TRUE /\ active = Areas
    /\ human \in {"none", "on"}

\* What the tick has read is what the site has, as long as the revision is.
Current ==
    /\ shown.rev <= rev /\ shown.rev \in Int
    /\ at \notin {"idle", "clean", "reload", "read"} => shown.rev <= snap.rev
    /\ at \in {"confirm", "post", "record", "sync"} /\ snap.rev = rev =>
          /\ snap.set = set /\ snap.confirmed = confirmed /\ snap.refused = refused
          /\ snap.said = said /\ snap.member /\ snap.collects
    /\ at \in {"post", "record"} => Due(snap) /\ ~SettledBack(snap)
    /\ at = "record" => outcome.rev = snap.rev

\* The cache is of the rules that are stored, and Poracle has them or is owed them.
Cached ==
    /\ ~owed => loaded = rules
    /\ \A s \in synced : rules # {} /\ \A x \in rules : x.areas = Chosen(s.areas)

Ready ==
    /\ at \in {"clean", "reload", "read", "confirm", "post", "record", "reread", "sync"} =>
          health = "pending"
    /\ at \in {"final", "publish", "report"} /\ health = "ready" /\ snap.rev = rev => InForce
    /\ shown.rev = rev /\ shown.state = "ready" /\ set.on => InForce /\ Serves(loaded)

CalmInv  == Present /\ Current /\ Cached /\ Ready
ReadyInv == ConsentInv /\ faults \in Nat /\ changes \in Nat /\ (Calm => CalmInv)

LEMMA InitReady == Init => ReadyInv
<1> SUFFICES ASSUME Init PROVE ReadyInv
  OBVIOUS
<1>0. ConsentInv
  BY InitConsent
<1>4. faults \in Nat /\ changes \in Nat
  BY DEF Init
<1>1. Present /\ Cached
  BY DEF Init, Present, Cached
<1>2. Current
  BY DEF Init, Current
<1>3. Ready
  BY DEF Init, Ready
<1> QED
  BY <1>0, <1>1, <1>2, <1>3, <1>4 DEF ReadyInv, CalmInv

\* The counters only grow, so a calm state was preceded by calm ones.
LEMMA CalmStays ==
    ASSUME ReadyInv, [Next]_vars
    PROVE  /\ faults' \in Nat /\ changes' \in Nat
           /\ Calm' => Calm /\ UNCHANGED <<faults, changes, areaChanges>>
<1>0. faults \in Nat /\ changes \in Nat /\ areaChanges \in Nat
  BY DEF ReadyInv, ConsentInv
<1>1. CASE Tick
  <2>1. (Fine \/ Fault) /\ UNCHANGED world
    BY <1>1 DEF Tick, Wake, Cleanup, Reload, Read, Skip, Acknowledge, Again, NoChannel, Claim, Recover,
       Post, Lost, Record, Reread, Idles, Create, Stopped, Unchanged, Rebuild, Report
  <2> QED
    BY <1>0, <2>1 DEF Fine, Fault, Calm, world
<1>2. CASE Crash
  BY <1>0, <1>2 DEF Crash, Fault, Calm, world
<1>3. CASE Outside
  BY <1>0, <1>3 DEF Outside, Save, Change, Collect, AreaChange, Settle, Ages, Expire, OwnReload, Calm, world
<1>4. CASE UNCHANGED vars
  BY <1>0, <1>4 DEF vars, Calm, world
<1> QED
  BY <1>1, <1>2, <1>3, <1>4 DEF Next

\* What every step below starts from.
Still == ConsentInv /\ Calm /\ CalmInv /\ UNCHANGED <<faults, changes, areaChanges>>

LEMMA StillFacts ==
    ASSUME Still
    PROVE  /\ ~Fault
           /\ rev \in 0..MaxRevisions /\ confirmed \in 0..rev /\ refused \in 0..rev
           /\ set \in Setting /\ asked \in [Revisions -> Setting] /\ (rev > 0 => asked[rev] = set)
           /\ snap.rev \in 0..rev
           /\ Present /\ Current /\ Cached /\ Ready
BY DEF Still, Calm, Fault, ConsentInv, CalmInv, JournalInv, Counters, Faithful

LEMMA SiteStays ==
    ASSUME UNCHANGED <<set, rev, acks, member, collects, active>>
    PROVE  /\ IsActive(Row)' <=> IsActive(Row)
           /\ \A A : Chosen(A)' = Chosen(A)
BY DEF IsActive, SettledBack, Row, Code, Chosen, acks

\* Steps that leave the site, Poracle and what the site shows alone.
LEMMA QuietReady ==
    ASSUME Still,
           UNCHANGED <<set, rev, acks, member, collects, active, human, rules, loaded, owed, shown>>,
           synced' \in {synced, {}},
           at' \in {"clean", "reload", "read", "confirm", "post", "record", "reread", "sync"} =>
               health' = "pending",
           at' \in {"final", "publish", "report"} /\ health' = "ready" /\ snap'.rev = rev => InForce,
           Current'
    PROVE  CalmInv'
<1>1. (InForce' <=> InForce) /\ (Serves(loaded)' <=> Serves(loaded))
  BY SiteStays DEF InForce, Serves
<1>2. Present' /\ Cached'
  BY StillFacts, SiteStays DEF Present, Cached
<1>3. Ready'
  BY <1>1, StillFacts DEF Ready
<1> QED
  BY <1>2, <1>3 DEF CalmInv

LEMMA WakesReady ==
    ASSUME Still, Wake \/ Skip \/ Again \/ Settle \/ Ages \/ Expire \/ Collect
    PROVE  CalmInv'
<1> USE DEF site, acks, dms, poracle, memory, world
<1>1. /\ UNCHANGED <<set, rev, confirmed, refused, said, member, collects, active>>
      /\ UNCHANGED <<human, rules, loaded, owed, shown, snap, outcome>>
      /\ synced' \in {synced, {}}
  BY DEF Wake, Skip, Again, Settle, Ages, Expire, Collect
<1>2. \/ at' = at /\ health' = health
      \/ at = "idle" /\ at' = "clean" /\ health' = "pending"
      \/ at = "confirm" /\ at' = "reread" /\ health' = health
      \/ Unsettled /\ outcome.rev = snap.rev /\ at' = "record" /\ health' = health
  BY DEF Wake, Skip, Again, Settle, Ages, Expire, Collect
<1>3. Current'
  BY <1>1, <1>2, StillFacts DEF Current, Unsettled, Confirming, Due, SettledBack, Code, Chosen
<1>4. /\ at' \in {"clean", "reload", "read", "confirm", "post", "record", "reread", "sync"} =>
            health' = "pending"
      /\ at' \in {"final", "publish", "report"} /\ health' = "ready" /\ snap'.rev = rev => InForce
  BY <1>1, <1>2, StillFacts DEF Ready, Unsettled, Confirming
<1> QED
  BY <1>1, <1>3, <1>4, QuietReady

LEMMA PostsReady ==
    ASSUME Still, NoChannel \/ Claim \/ Recover \/ Post
    PROVE  CalmInv'
<1> USE DEF site, acks, dms, poracle, memory, world
<1>1. /\ UNCHANGED <<set, rev, confirmed, refused, said, member, collects, active>>
      /\ UNCHANGED <<human, rules, loaded, owed, shown, snap, synced, health>>
  BY DEF NoChannel, Claim, Recover, Post
<1>2. /\ at \in {"confirm", "post"} /\ (at = "confirm" => Unsettled)
      /\ \/ at' = "reread" \/ at' = "post"
         \/ at' = "record" /\ outcome'.rev = snap.rev
  BY StillFacts DEF NoChannel, Claim, Recover, Post, Lost, Unsettled, Confirming
<1>3. Due(snap)' = Due(snap) /\ SettledBack(snap)' = SettledBack(snap)
  BY <1>1 DEF Due, SettledBack, Code, Chosen
<1>4. Due(snap) /\ ~SettledBack(snap)
  BY <1>2, StillFacts DEF Current, Unsettled, Confirming
<1>5. Current'
  BY <1>1, <1>2, <1>3, <1>4, StillFacts DEF Current
<1>6. health' = "pending"
  BY <1>1, <1>2, StillFacts DEF Ready
<1>7. at' \notin {"final", "publish", "report"}
  BY <1>2
<1> QED
  BY <1>1, <1>5, <1>6, <1>7, QuietReady

LEMMA ReadsReady ==
    ASSUME Still, Read \/ Reread
    PROVE  CalmInv'
<1> USE DEF site, acks, dms, poracle, memory, world
<1>1. /\ UNCHANGED <<set, rev, confirmed, refused, said, member, collects, active>>
      /\ UNCHANGED <<human, rules, loaded, owed, shown, synced, health>>
      /\ snap' = Row
      /\ \/ at = "read" /\ at' = "confirm"
         \/ at = "reread" /\ at' = "sync"
  <2>1. CASE Read
    BY <2>1, StillFacts DEF Read
  <2>2. CASE Reread
    BY <2>2, StillFacts DEF Reread
  <2> QED
    BY <2>1, <2>2
<1>2. /\ snap'.rev = rev /\ snap'.set = set /\ snap'.confirmed = confirmed /\ snap'.refused = refused
      /\ snap'.said = said /\ snap'.member = member /\ snap'.collects = collects
  BY <1>1 DEF Row
<1>3. Current'
  BY <1>1, <1>2, StillFacts DEF Current, Present
<1>4. health' = "pending" /\ at' \notin {"final", "publish", "report"}
  BY <1>1, StillFacts DEF Ready
<1> QED
  BY <1>1, <1>3, <1>4, QuietReady

\* An active snapshot of the current revision is an active player.
LEMMA SnapIsRow ==
    ASSUME Still, Syncing, snap.rev = rev
    PROVE  set.on /\ IsActive(Row) /\ snap.set = set
<1>1. /\ snap.set = set /\ snap.confirmed = confirmed /\ snap.refused = refused
      /\ snap.said = said /\ snap.member /\ snap.collects
  BY StillFacts DEF Syncing, Current
<1>2. member /\ collects
  BY StillFacts DEF Present
<1> QED
  BY <1>1, <1>2 DEF Syncing, IsActive, SettledBack, Row

LEMMA IdlesReady ==
    ASSUME Still, Idles \/ Stopped \/ Unchanged
    PROVE  CalmInv'
<1> USE DEF site, acks, dms, poracle, memory, world
<1>1. /\ UNCHANGED <<set, rev, confirmed, refused, said, member, collects, active>>
      /\ UNCHANGED <<human, rules, loaded, owed, shown, snap>>
      /\ synced' \in {synced, {}} /\ at = "sync" /\ at' = "final"
      /\ \/ health' = health
         \/ Syncing /\ human = "on" /\ Signature \in synced
  <2>1. CASE Idles
    BY <2>1 DEF Idles
  <2>2. CASE Unchanged
    BY <2>2 DEF Unchanged, Syncing
  <2>3. ~Stopped
    BY StillFacts DEF Stopped, Present
  <2> QED
    BY <2>1, <2>2, <2>3
<1>2. Current'
  BY <1>1, StillFacts DEF Current
<1>3. ASSUME health' = "ready", snap.rev = rev PROVE InForce
  <2>1. Syncing /\ human = "on" /\ Signature \in synced
    BY <1>1, <1>3, StillFacts DEF Ready
  <2>2. set.on /\ IsActive(Row) /\ snap.set = set
    BY <1>3, <2>1, SnapIsRow
  <2>3. rules # {} /\ \A x \in rules : x.areas = Chosen(Signature.areas)
    BY <2>1, StillFacts DEF Cached
  <2>4. Signature.areas = set.areas
    BY <2>2 DEF Signature
  <2> QED
    BY <2>1, <2>2, <2>3, <2>4 DEF InForce, Serves
<1>4. at' \notin {"clean", "reload", "read", "confirm", "post", "record", "reread", "sync"}
  BY <1>1
<1>5. health' = "ready" /\ snap'.rev = rev => InForce
  BY <1>1, <1>3
<1> QED
  BY <1>1, <1>2, <1>4, <1>5, QuietReady

\* Recording an answer: for the current revision it can only make active who was
\* not, or confirm anew who was.
LEMMA ActsReady ==
    ASSUME Still, NEW r \in 0..rev, NEW d \in BOOLEAN, UNCHANGED acks \/ Recorded(r, d),
           r = rev /\ IsActive(Row) => d,
           UNCHANGED <<set, asked, rev, member, collects, active, human, rules, loaded, owed, synced>>,
           UNCHANGED <<shown, snap, health>>,
           at \in {"confirm", "record"}, at' = "reread"
    PROVE  CalmInv'
<1>1. Present' /\ Current'
  BY StillFacts DEF Present, Current
<1>2. Cached' /\ \A A : Chosen(A)' = Chosen(A)
  BY StillFacts DEF Cached, Chosen
<1>3. ASSUME IsActive(Row) PROVE IsActive(Row)'
  <2>1. CASE UNCHANGED acks
    BY <1>3, <2>1, SiteStays
  <2>2. CASE rev = r /\ Larger(confirmed, refused) < r /\ confirmed' = r /\ refused' = refused
    BY <1>3, <2>2, StillFacts DEF IsActive, Row, Larger
  <2> QED
    BY <1>3, <2>1, <2>2 DEF Recorded
<1>4. (InForce => InForce') /\ (Serves(loaded) => Serves(loaded)')
  BY <1>2, <1>3 DEF InForce, Serves
<1>5. Ready'
  BY <1>4, StillFacts DEF Ready
<1> QED
  BY <1>1, <1>2, <1>5 DEF CalmInv

LEMMA AcksReady ==
    ASSUME Still, Acknowledge \/ Record
    PROVE  CalmInv'
<1> USE DEF site, dms, poracle, memory, world
<1>1. /\ UNCHANGED <<set, asked, rev, member, collects, active, human, rules, loaded, owed, synced>>
      /\ UNCHANGED <<shown, snap, health>>
      /\ at' = "reread"
  BY DEF Acknowledge, Record
<1>2. CASE Acknowledge
  <2>1. at = "confirm" /\ (UNCHANGED acks \/ Recorded(snap.rev, TRUE))
    BY <1>2 DEF Acknowledge, Confirming
  <2> QED
    BY <1>1, <2>1, StillFacts, ActsReady
<1>3. CASE Record
  <2>1. at = "record" /\ (UNCHANGED acks \/ Recorded(outcome.rev, outcome.delivered))
    BY <1>3 DEF Record
  <2>2. outcome.rev = snap.rev /\ Due(snap) /\ ~SettledBack(snap)
    BY <2>1, StillFacts DEF Current
  <2>3. outcome.delivered \in BOOLEAN
    BY DEF Still, ConsentInv, Evidence
  <2>4. ASSUME snap.rev = rev PROVE ~IsActive(Row)
    <3>1. /\ snap.set = set /\ snap.confirmed = confirmed /\ snap.refused = refused
          /\ snap.said = said
      BY <2>1, <2>4, StillFacts DEF Current
    <3>2. confirmed # rev
      BY <2>2, <2>4, <3>1, StillFacts DEF Due, Larger
    <3>3. ~SettledBack(Row)
      BY <2>2, <3>1 DEF SettledBack, Row
    <3> QED
      BY <3>2, <3>3 DEF IsActive, Row
  <2> QED
    BY <1>1, <2>1, <2>2, <2>3, <2>4, StillFacts, ActsReady
<1> QED
  BY <1>2, <1>3

\* With all areas active the SQL of the cleanup and Python agree.
LEMMA ForceIsKept ==
    ASSUME Still, InForce
    PROVE  Kept
<1>1. active = Areas /\ set.areas \subseteq Areas
  BY StillFacts DEF Present, Setting
<1>2. Chosen(set.areas) = IF set.areas = {} THEN active ELSE set.areas
  BY <1>1 DEF Chosen
<1>3. Code(set) = SqlCode
  BY <1>2 DEF InForce, Code, SqlCode
<1> QED
  BY <1>3, StillFacts DEF InForce, IsActive, SettledBack, Row, Kept

LEMMA CleanupReady ==
    ASSUME Still, Cleanup
    PROVE  CalmInv'
<1> USE DEF site, acks, dms, poracle, memory, world
<1>1. /\ UNCHANGED <<set, rev, confirmed, refused, said, member, collects, active>>
      /\ UNCHANGED <<human, loaded, shown, snap, outcome, health>>
      /\ \/ at = "clean" /\ at' = "reload"
         \/ at = "final" /\ at' = "publish"
  BY DEF Cleanup
<1>2. /\ rules' = IF Kept THEN rules ELSE {}
      /\ IF rules' # rules THEN owed' = TRUE /\ synced' = {} ELSE UNCHANGED <<owed, synced>>
  BY StillFacts DEF Cleanup
<1>3. Present' /\ Current'
  BY <1>1, StillFacts DEF Present, Current
<1>4. \A A : Chosen(A)' = Chosen(A)
  BY <1>1, SiteStays
<1>5. Cached'
  <2>1. CASE rules' = rules
    BY <1>1, <1>2, <1>4, <2>1, StillFacts DEF Cached
  <2>2. CASE rules' # rules
    BY <1>2, <2>2 DEF Cached
  <2> QED
    BY <2>1, <2>2
<1>6. ASSUME InForce PROVE InForce'
  BY <1>1, <1>2, <1>6, SiteStays, ForceIsKept DEF InForce, Serves
<1>7. Serves(loaded)' <=> Serves(loaded)
  BY <1>1, <1>4 DEF Serves
<1>8. Ready'
  BY <1>1, <1>6, <1>7, StillFacts DEF Ready
<1> QED
  BY <1>3, <1>5, <1>8 DEF CalmInv

LEMMA ReloadReady ==
    ASSUME Still, Reload \/ OwnReload
    PROVE  CalmInv'
<1> USE DEF site, acks, dms, poracle, memory, world
<1>1. /\ UNCHANGED <<set, rev, confirmed, refused, said, member, collects, active>>
      /\ UNCHANGED <<human, rules, shown, snap, outcome, synced, health>>
      /\ \/ loaded' = rules
         \/ UNCHANGED <<loaded, owed>>
  BY StillFacts DEF Reload, OwnReload
<1>2. \/ at' = at
      \/ at = "reload" /\ at' = "read"
      \/ at = "publish" /\ at' = "report"
  BY DEF Reload, OwnReload
<1>3. Present' /\ Current'
  BY <1>1, <1>2, StillFacts DEF Present, Current, Due, SettledBack, Code, Chosen
<1>4. \A A : Chosen(A)' = Chosen(A)
  BY <1>1, SiteStays
<1>5. Cached'
  BY <1>1, <1>4, StillFacts DEF Cached
<1>6. InForce' <=> InForce
  BY <1>1, SiteStays DEF InForce, Serves
<1>7. InForce /\ Serves(loaded) => Serves(loaded)'
  BY <1>1, <1>4 DEF InForce, Serves
<1>8. Ready'
  BY <1>1, <1>2, <1>6, <1>7, StillFacts DEF Ready
<1> QED
  BY <1>3, <1>5, <1>8 DEF CalmInv

LEMMA CreateReady ==
    ASSUME Still, Create
    PROVE  CalmInv'
<1> USE DEF site, acks, dms, poracle, memory, world
<1>1. /\ UNCHANGED <<set, rev, confirmed, refused, said, member, collects, active>>
      /\ UNCHANGED <<rules, loaded, owed, shown, snap, outcome, at, health>>
      /\ human = "none" /\ human' = "on" /\ synced' = {} /\ at = "sync"
  BY StillFacts DEF Create, Syncing
<1>2. Present' /\ Current' /\ Cached'
  BY <1>1, StillFacts DEF Present, Current, Cached
<1>3. ~InForce
  BY <1>1 DEF InForce
<1>4. Ready'
  BY <1>1, <1>3, StillFacts DEF Ready
<1> QED
  BY <1>2, <1>4 DEF CalmInv

\* The rules are built of the snapshot, which is of now if its revision is.
LEMMA RebuildReady ==
    ASSUME Still, Rebuild
    PROVE  CalmInv'
<1> USE DEF site, acks, dms, poracle, memory, world
<1>1. /\ UNCHANGED <<set, rev, confirmed, refused, said, member, collects, active>>
      /\ UNCHANGED <<human, loaded, shown, snap, outcome>>
      /\ Syncing /\ human = "on" /\ at = "sync" /\ at' = "final"
      /\ rules' = Built /\ owed' = (owed \/ rules # Built)
      /\ synced' = {Signature} /\ health' = "ready"
  BY StillFacts DEF Rebuild, Syncing
<1>2. Present' /\ Current'
  BY <1>1, StillFacts DEF Present, Current
<1>3. \A A : Chosen(A)' = Chosen(A)
  BY <1>1, SiteStays
<1>4. rules' # {} /\ \A x \in rules' : x.areas = Chosen(snap.set.areas)
  BY <1>1 DEF Built
<1>5. Cached'
  <2>1. ~owed' => loaded' = rules'
    BY <1>1, StillFacts DEF Cached
  <2>2. \A s \in synced' : s.areas = snap.set.areas
    BY <1>1 DEF Signature
  <2> QED
    BY <1>3, <1>4, <2>1, <2>2 DEF Cached
<1>6. ASSUME snap.rev = rev PROVE InForce'
  <2>1. set.on /\ IsActive(Row) /\ snap.set = set
    BY <1>1, <1>6, SnapIsRow
  <2> QED
    BY <1>1, <1>3, <1>4, <2>1, SiteStays DEF InForce, Serves
<1>7. Serves(loaded)' <=> Serves(loaded)
  BY <1>1, <1>3 DEF Serves
<1>8. shown.rev = rev => snap.rev = rev
  BY <1>1, StillFacts DEF Current
<1>9. Ready'
  BY <1>1, <1>6, <1>7, <1>8, StillFacts DEF Ready
<1> QED
  BY <1>2, <1>5, <1>9 DEF CalmInv

LEMMA ReportReady ==
    ASSUME Still, Report
    PROVE  CalmInv'
<1> USE DEF site, acks, dms, poracle, memory, world
<1>1. /\ UNCHANGED <<set, rev, confirmed, refused, said, member, collects, active>>
      /\ UNCHANGED <<human, rules, loaded, outcome, synced, owed, health>>
      /\ at = "report" /\ at' = "idle"
      /\ shown' = Said(IF health = "ready" /\ owed THEN "unavailable" ELSE health)
  BY StillFacts DEF Report
<1>2. shown' = shown \/ (snap.rev = rev /\ shown'.rev = rev)
  BY <1>1 DEF Said
<1>3. Present' /\ Current' /\ Cached'
  BY <1>1, <1>2, SiteStays, StillFacts DEF Present, Current, Cached
<1>4. (InForce' <=> InForce) /\ (Serves(loaded)' <=> Serves(loaded))
  BY <1>1, SiteStays DEF InForce, Serves
<1>5. ASSUME shown'.rev = rev, shown'.state = "ready", set.on PROVE InForce /\ Serves(loaded)
  <2>1. CASE snap.rev = rev
    <3>1. health = "ready" /\ ~owed
      BY <1>1, <1>5, <2>1 DEF Said
    <3>2. InForce /\ loaded = rules
      BY <1>1, <2>1, <3>1, StillFacts DEF Ready, Cached
    <3> QED
      BY <3>2 DEF InForce
  <2>2. CASE snap.rev # rev
    BY <1>1, <1>5, <2>2, StillFacts DEF Said, Ready
  <2> QED
    BY <2>1, <2>2
<1>6. Ready'
  BY <1>1, <1>4, <1>5 DEF Ready
<1> QED
  BY <1>3, <1>6 DEF CalmInv

\* A save makes whatever was read, built and shown of an earlier revision.
LEMMA SaveReady ==
    ASSUME Still, Save
    PROVE  CalmInv'
<1> USE DEF site, acks, dms, poracle, memory, world
<1>1. /\ UNCHANGED <<confirmed, refused, said, member, collects, active, human, rules, loaded>>
      /\ UNCHANGED <<outcome, synced, owed, health, shown, at, snap>>
      /\ rev' = rev + 1
  BY DEF Save
<1>2. snap.rev < rev' /\ shown.rev < rev' /\ shown.rev <= rev'
  BY <1>1, StillFacts DEF Current
<1>3. Due(snap)' = Due(snap) /\ SettledBack(snap)' = SettledBack(snap)
  BY <1>1 DEF Due, SettledBack, Code, Chosen
<1>4. \A A : Chosen(A)' = Chosen(A)
  BY <1>1 DEF Chosen
<1>5. Present' /\ Cached'
  BY <1>1, <1>4, StillFacts DEF Present, Cached
<1>6. Current'
  BY <1>1, <1>2, <1>3, StillFacts DEF Current
<1>7. Ready'
  BY <1>1, <1>2, StillFacts DEF Ready
<1> QED
  BY <1>5, <1>6, <1>7 DEF CalmInv

LEMMA NextReady == ReadyInv /\ [Next]_vars => ReadyInv'
<1> SUFFICES ASSUME ReadyInv, [Next]_vars PROVE ReadyInv'
  OBVIOUS
<1>1. ConsentInv' /\ faults' \in Nat /\ changes' \in Nat
  BY NextConsent, CalmStays DEF ReadyInv
<1>2. ASSUME Calm' PROVE CalmInv'
  <2>1. Still
    BY <1>2, CalmStays DEF Still, ReadyInv
  <2>2. CASE Tick
    BY <2>1, <2>2, WakesReady, PostsReady, ReadsReady, IdlesReady, AcksReady, CleanupReady, ReloadReady,
       CreateReady, RebuildReady, ReportReady DEF Tick
  <2>3. ~Crash
    BY <2>1, StillFacts DEF Crash
  <2>4. CASE Outside
    <3>1. ~Change /\ ~AreaChange
      BY <2>1 DEF Still, Calm, Change, AreaChange
    <3> QED
      BY <2>1, <2>4, <3>1, WakesReady, ReloadReady, SaveReady DEF Outside
  <2>5. CASE UNCHANGED vars
    <3>1. UNCHANGED <<set, rev, acks, member, collects, active, human, rules, loaded, owed, shown>>
          /\ UNCHANGED <<confirmed, refused, said, at, snap, outcome, synced, health>>
      BY <2>5 DEF vars, site, acks, poracle, memory, world
    <3>2. Current'
      BY <2>1, <3>1, StillFacts DEF Current, Due, SettledBack, Code, Chosen
    <3>3. /\ at' \in {"clean", "reload", "read", "confirm", "post", "record", "reread", "sync"} =>
                health' = "pending"
          /\ at' \in {"final", "publish", "report"} /\ health' = "ready" /\ snap'.rev = rev => InForce
      BY <2>1, <3>1, StillFacts DEF Ready
    <3> QED
      BY <2>1, <3>1, <3>2, <3>3, QuietReady
  <2> QED
    BY <2>2, <2>3, <2>4, <2>5 DEF Next
<1> QED
  BY <1>1, <1>2 DEF ReadyInv

\* Until something fails, leaves or is switched off, "ready" on the site means
\* that Poracle works with the areas of these settings: _sync_player, _cleanup_rules,
\* _reload_if_pending and _record_health, whenever the site saves.
THEOREM ReadyMeansLoaded == Spec => []ReadyIsTrue
<1>1. ReadyInv => ReadyIsTrue
  <2> SUFFICES ASSUME ReadyInv, Calm, shown = [rev |-> rev, state |-> "ready"], set.on
               PROVE  Serves(loaded)
    BY DEF ReadyIsTrue, Calm, Serves
  <2>1. shown.rev = rev /\ shown.state = "ready"
    OBVIOUS
  <2> QED
    BY <2>1 DEF ReadyInv, CalmInv, Ready
<1> QED
  BY <1>1, InitReady, NextReady, PTL DEF Spec
===============================================================================
