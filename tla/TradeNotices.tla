----------------------------- MODULE TradeNotices -----------------------------
(***************************************************************************)
(* The three jobs that tell players about trades: TradeDM, TradeAnnouncer  *)
(* and TradeDigest.  Each reads what the site has added between its        *)
(* watermark and a cutoff, sends, records what was sent (not the digest)   *)
(* and moves the watermark.  They share nothing but the table the site     *)
(* writes, so a behaviour follows one of them.                             *)
(*                                                                         *)
(* A unit of time is half a minute.                                        *)
(***************************************************************************)
EXTENDS Integers, FiniteSets

CONSTANTS
    Pairs,      \* trades: a spare with somebody who could do with it
    To,         \* recipient (or actor) of each pair, a positive number
    Recipients, \* _RECIPIENTS_PER_TICK
    Day,        \* units in a day
    Horizon,    \* bound: the last moment at which the site adds something
    MaxRaised,  \* bound: messages that Discord does not take
    MaxMishaps  \* bound: crashes and answers lost between a message and its record

ASSUME TradeNoticesAssumption ==
    /\ IsFiniteSet(Pairs) /\ To \in [Pairs -> Nat \ {0}]
    /\ Recipients \in Nat \ {0} /\ Day \in Nat \ {0}
    /\ Horizon \in Nat /\ MaxRaised \in Nat /\ MaxMishaps \in Nat

VARIABLES
    sender,     \* the job this behaviour follows
    clock,
    entry,      \* trade_entry: each pair on its way through the site's transaction
    stamp,      \* created_at
    watermark,  \* last_trade_dm_at, last_trade_notice_at or last_trade_digest_at; 0 is NULL
    notices,    \* trade_dm_notice or trade_notice
    batch,      \* the tick's locals
    \* observation
    origin,     \* the first watermark
    named,      \* messages that named the pair
    closed,     \* pairs whose recipient refused the message
    raised, mishaps

site      == <<entry, stamp>>
told      == <<named, closed>>
tradeVars == <<sender, clock, entry, stamp, watermark, notices, batch, origin,
               named, closed, raised, mishaps>>

Senders == {"dm", "announcer", "digest"}

\* The youngest entry a batch may hold: the cutoff is this long ago.
DMSettle       == 2
AnnounceSettle == 3
Settle == [s \in Senders |-> CASE s = "dm" -> DMSettle
                               [] s = "announcer" -> AnnounceSettle
                               [] OTHER -> 0]

Start == AnnounceSettle + 1

Idle == [step |-> "idle", cutoff |-> 0, rows |-> {}, over |-> FALSE, to |-> 0]

TradeTypeOK ==
    /\ sender \in Senders
    /\ clock \in Nat /\ stamp \in [Pairs -> Nat] /\ watermark \in Nat /\ origin \in Nat
    /\ entry \in [Pairs -> {"absent", "open", "in", "late", "gone"}]
    /\ batch \in [step : {"idle", "send", "record", "advance"}, cutoff : Nat,
                  rows : SUBSET Pairs, over : BOOLEAN, to : Nat]
    /\ notices \subseteq Pairs /\ closed \subseteq Pairs
    /\ named \in [Pairs -> Nat] /\ raised \in 0..MaxRaised /\ mishaps \in 0..MaxMishaps

TradeInit ==
    /\ sender \in Senders
    /\ clock = Start
    /\ entry = [p \in Pairs |-> "absent"] /\ stamp = [p \in Pairs |-> 0]
    /\ watermark = 0 /\ origin = 0
    /\ notices = {} /\ closed = {} /\ named = [p \in Pairs |-> 0]
    /\ batch = Idle
    /\ raised = 0 /\ mishaps = 0

-------------------------------------------------------------------------------
(* The site: a row has its created_at from inside a transaction that ends    *)
(* later, soon enough for the job's cutoff or not.                           *)

Adds(p) ==
    /\ entry[p] = "absent" /\ clock <= Horizon
    /\ entry' = [entry EXCEPT ![p] = "open"]
    /\ stamp' = [stamp EXCEPT ![p] = clock]
    /\ UNCHANGED <<sender, clock, watermark, notices, batch, origin, told, raised, mishaps>>

Commits(p) ==
    /\ entry[p] = "open"
    /\ entry' = [entry EXCEPT ![p] = IF clock < stamp[p] + Settle[sender] THEN "in" ELSE "late"]
    /\ UNCHANGED <<sender, clock, stamp, watermark, notices, batch, origin, told, raised, mishaps>>

\* The spare is traded, its owner leaves, or the other one switches the messages off.
Withdraws(p) ==
    /\ entry[p] \in {"in", "late"}
    /\ entry' = [entry EXCEPT ![p] = "gone"]
    /\ UNCHANGED <<sender, clock, stamp, watermark, notices, batch, origin, told, raised, mishaps>>

Passes ==
    /\ clock < Horizon + AnnounceSettle
    /\ clock' = clock + 1
    /\ UNCHANGED <<sender, site, watermark, notices, batch, origin, told, raised, mishaps>>

-------------------------------------------------------------------------------
(* Reading a batch: one connection, one snapshot.                            *)

Visible(p) == entry[p] \in {"in", "late"}

\* What a batch holds: added after the watermark, no later than the cutoff.
Between(p, cutoff) == Visible(p) /\ watermark < stamp[p] /\ stamp[p] <= cutoff

\* Mutant of NewMutuals: the anti-join on the notices is lost.
NewMutualsAgain(cutoff) == {p \in Pairs : Between(p, cutoff)}

\* The statements of the two jobs with notices, which leave out what has one.
NewMutuals(cutoff)  == {p \in Pairs : Between(p, cutoff) /\ p \notin notices}
Connections(cutoff) == {p \in Pairs : Between(p, cutoff) /\ p \notin notices}
Additions(cutoff)   == {p \in Pairs : Between(p, cutoff)}

Whose(R) == {To[p] : p \in R}

\* The first recipients, in the order of the statement.
Served(R) == {p \in R : Cardinality({q \in Whose(R) : q < To[p]}) < Recipients}

\* A tick without a watermark sets one, and sends nothing.
Begins(step, cutoff, rows, over) ==
    batch' = IF watermark = 0
             THEN [Idle EXCEPT !.step = "advance", !.cutoff = cutoff]
             ELSE [Idle EXCEPT !.step = IF rows = {} THEN "advance" ELSE step,
                               !.cutoff = cutoff, !.rows = rows, !.over = over]

ReadMutuals ==
    /\ sender = "dm" /\ batch.step = "idle"
    /\ LET cutoff == clock - DMSettle
           found  == NewMutuals(cutoff)
       IN Begins("send", cutoff, Served(found), Cardinality(Whose(found)) > Recipients)
    /\ UNCHANGED <<sender, clock, site, watermark, notices, origin, told, raised, mishaps>>

ReadConnections ==
    /\ sender = "announcer" /\ batch.step = "idle"
    /\ LET cutoff == clock - AnnounceSettle
       IN Begins("send", cutoff, Connections(cutoff), FALSE)
    /\ UNCHANGED <<sender, clock, site, watermark, notices, origin, told, raised, mishaps>>

\* A day begins at DIGEST_HOUR; the watermark is also the mark of today's post.
IsDue == watermark = 0 \/ watermark \div Day < clock \div Day

ReadAdditions ==
    /\ sender = "digest" /\ batch.step = "idle" /\ IsDue
    /\ Begins("send", clock, Additions(clock), FALSE)
    /\ UNCHANGED <<sender, clock, site, watermark, notices, origin, told, raised, mishaps>>

-------------------------------------------------------------------------------
(* Sending.  `Says` is a message that names a group of the batch.            *)

Group == {p \in batch.rows : sender = "digest" \/ To[p] = batch.to}

Says(group) == named' = [p \in Pairs |-> IF p \in group THEN named[p] + 1 ELSE named[p]]

IsNext(r) == r \in Whose(batch.rows) /\ \A q \in Whose(batch.rows) : r <= q

\* One recipient's message.  Closed DMs and vanished accounts are recorded as well.
SendDM(r) ==
    /\ sender = "dm" /\ batch.step = "send" /\ IsNext(r)
    /\ LET group == {p \in batch.rows : To[p] = r}
       IN \/ Says(group) /\ UNCHANGED closed
          \/ closed' = closed \union group /\ UNCHANGED named
    /\ batch' = [batch EXCEPT !.step = "record", !.to = r]
    /\ UNCHANGED <<sender, clock, site, watermark, notices, origin, raised, mishaps>>

PostMatches(r) ==
    /\ sender = "announcer" /\ batch.step = "send" /\ r \in Whose(batch.rows)
    /\ Says({p \in batch.rows : To[p] = r})
    /\ batch' = [batch EXCEPT !.step = "record", !.to = r]
    /\ UNCHANGED <<sender, clock, site, watermark, notices, origin, closed, raised, mishaps>>

PostDigest ==
    /\ sender = "digest" /\ batch.step = "send"
    /\ Says(batch.rows)
    /\ batch' = [batch EXCEPT !.step = "advance", !.rows = {}]
    /\ UNCHANGED <<sender, clock, site, watermark, notices, origin, closed, raised, mishaps>>

\* Any other error ends the tick at this message, which was not sent.
Raises ==
    /\ batch.step = "send" /\ raised < MaxRaised
    /\ raised' = raised + 1
    /\ batch' = Idle
    /\ UNCHANGED <<sender, clock, site, watermark, notices, origin, told, mishaps>>

\* The process dies, a statement fails, or a message lands and its answer is lost.
Breaks ==
    /\ batch.step # "idle" /\ mishaps < MaxMishaps
    /\ mishaps' = mishaps + 1
    /\ batch' = Idle
    /\ \/ UNCHANGED told
       \/ /\ batch.step = "send"
          /\ \E r \in Whose(batch.rows) :
                /\ sender = "dm" => IsNext(r)
                /\ Says({p \in batch.rows : sender = "digest" \/ To[p] = r})
          /\ UNCHANGED closed
    /\ UNCHANGED <<sender, clock, site, watermark, notices, origin, raised>>

-------------------------------------------------------------------------------
(* Recording.                                                                *)

\* Mutant of Rest: the watermark follows the first recipients, though others wait.
RestUncapped ==
    LET left == batch.rows \ Group
    IN batch' = IF left # {} THEN [batch EXCEPT !.step = "send", !.rows = left]
                ELSE [batch EXCEPT !.step = "advance", !.rows = {}]

\* After a group: the next one, or the end of the batch.
Rest ==
    LET left == batch.rows \ Group
    IN batch' = IF left # {} THEN [batch EXCEPT !.step = "send", !.rows = left]
                ELSE IF batch.over THEN Idle
                ELSE [batch EXCEPT !.step = "advance", !.rows = {}]

\* _record_notices, after each message.
RecordDM ==
    /\ sender = "dm" /\ batch.step = "record"
    /\ notices' = notices \union Group
    /\ Rest
    /\ UNCHANGED <<sender, clock, site, watermark, origin, told, raised, mishaps>>

RecordMatches ==
    /\ sender = "announcer" /\ batch.step = "record"
    /\ notices' = notices \union Group
    /\ Rest
    /\ UNCHANGED <<sender, clock, site, watermark, origin, told, raised, mishaps>>

\* The watermark moves to the cutoff the batch was read with.
Advance ==
    /\ batch.step = "advance"
    /\ watermark' = batch.cutoff
    /\ origin' = IF watermark = 0 THEN batch.cutoff ELSE origin
    /\ batch' = Idle
    /\ UNCHANGED <<sender, clock, site, notices, told, raised, mishaps>>

-------------------------------------------------------------------------------
TradeTick ==
    \/ ReadMutuals \/ ReadConnections \/ ReadAdditions
    \/ PostDigest
    \/ RecordDM \/ RecordMatches \/ Advance

TradeNext ==
    \/ \E p \in Pairs : Adds(p) \/ Commits(p) \/ Withdraws(p)
    \/ Passes
    \/ TradeTick
    \/ \E p \in Pairs : SendDM(To[p]) \/ PostMatches(To[p])
    \/ Raises
    \/ Breaks

TradeSpec == TradeInit /\ [][TradeNext]_tradeVars

-------------------------------------------------------------------------------
(* Properties.                                                               *)

\* A spare that was there in time is never passed over: once the watermark is past it, its
\* recipient has had the message or refused it.
Settled(p) == entry[p] = "in" /\ origin < stamp[p] /\ stamp[p] <= watermark
NoTradeSkipped == \A p \in Pairs : Settled(p) => named[p] > 0 \/ p \in closed

\* Each time a trade is named again, something broke between its message and its record.
RepeatsCostMishaps == \A p \in Pairs : named[p] <= 1 + mishaps

\* Told, and not again and again.
TradesAreTold == NoTradeSkipped /\ RepeatsCostMishaps

\* Every trade is told, refused or withdrawn: again and again nobody waits, so that no recipient
\* waits for ever behind the cap.
Waits(p) == /\ entry[p] = "in" /\ origin # 0 /\ origin < stamp[p]
            /\ named[p] = 0 /\ p \notin closed
EveryTradeIsTold == []<>(\A p \in Pairs : ~Waits(p))
===============================================================================
