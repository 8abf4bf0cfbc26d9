------------------------------ MODULE ShinyAccess ------------------------------
(***************************************************************************)
(* One player's switches on the site and his private channel.  Every tick  *)
(* of the bot brings the channel in line with the switches                 *)
(* (shiny_channels), reads them for the alerts (shiny_alerts) and tells    *)
(* the site which save it has applied (shiny_store.confirm_settings).  The *)
(* owner's `!shiny canal` opens the channel by hand.                       *)
(***************************************************************************)
EXTENDS Integers, FiniteSets

CONSTANTS
    MaxSaves,     \* bound: saves on the site and decisions about the access
    MaxChannels,  \* bound: channels created
    MaxRefusals   \* bound: calls that fail or take too long

ASSUME ShinyAccessAssumption ==
    /\ MaxSaves \in Nat /\ MaxChannels \in Nat \ {0} /\ MaxRefusals \in Nat

VARIABLES
    on,        \* SHINY_ALERTS_ENABLED
    player,    \* trade_player: access, switches and revisions
    linked,    \* shiny_link.status is linked
    record,    \* shiny_link: the channel, channel_archived and the pinned note
    channels,  \* Discord: each channel and whether the player sees it
    holder,    \* who has CHANNEL_LOCK, and where
    tick,      \* the bot's tick
    \* observation
    read,      \* the revision when the tick last read the switches
    saves, refusals

shinyBounds == <<saves, refusals>>
shinyVars   == <<on, player, linked, record, channels, holder, tick, read, shinyBounds>>

Ids == 0..MaxChannels    \* 0 is no channel

ShinyTypeOK ==
    /\ {on, linked} \subseteq BOOLEAN
    /\ player \in [access : BOOLEAN, map : BOOLEAN, notify : BOOLEAN,
                   left : BOOLEAN, revision : Nat, applied : Nat]
    /\ record \in [channel : Ids, archived : BOOLEAN, intro : {"none", "up", "off"}]
    /\ channels \in [1..MaxChannels -> {"none", "shown", "hidden"}]
    /\ holder \in [by : {"nobody", "tick", "owner"}, channel : Ids,
                   step : {"", "make", "set", "show", "recheck", "intro", "again", "open",
                           "archive", "hide", "off"}]
    /\ tick \in [step : {"idle", "ensure", "alerts", "confirm"}, pending : Nat]
    /\ read \in Nat /\ saves \in 0..MaxSaves /\ refusals \in 0..MaxRefusals

NoHolder == [by |-> "nobody", channel |-> 0, step |-> ""]

ShinyInit ==
    /\ on \in BOOLEAN
    /\ player = [access |-> FALSE, map |-> FALSE, notify |-> TRUE, left |-> FALSE,
                 revision |-> 0, applied |-> 0]
    /\ linked = FALSE
    /\ record = [channel |-> 0, archived |-> FALSE, intro |-> "none"]
    /\ channels = [c \in 1..MaxChannels |-> "none"]
    /\ holder = NoHolder /\ tick = [step |-> "idle", pending |-> 0]
    /\ read = 0 /\ saves = 0 /\ refusals = 0

Fault == refusals < MaxRefusals /\ refusals' = refusals + 1

-------------------------------------------------------------------------------
(* The site and the linker.                                                  *)

Site == <<on, record, channels, holder, tick, read, refusals>>

\* The player saves his switches, a moderator accepts him or the owner withdraws the access:
\* each is a revision.
SavesSettings ==
    /\ saves < MaxSaves
    /\ saves' = saves + 1
    /\ \E access, map, notify \in BOOLEAN :
          /\ ~player.access => access /\ map /\ notify = player.notify
          /\ player' = [player EXCEPT !.access = access, !.map = map /\ access, !.notify = notify,
                                      !.revision = @ + 1]
    /\ UNCHANGED <<Site, linked>>

Departs ==
    /\ ~player.left /\ player' = [player EXCEPT !.left = TRUE]
    /\ UNCHANGED <<Site, linked, saves>>

Links ==
    /\ ~linked /\ player.access /\ linked' = TRUE
    /\ UNCHANGED <<Site, player, saves>>

-------------------------------------------------------------------------------
(* shiny_channels.ensure, under CHANNEL_LOCK; a call that does not come back *)
(* in time ends it where it is.                                              *)

ChannelOnly == <<on, player, linked, read, shinyBounds>>

Enabled == player.access /\ player.map /\ ~player.left

\* The recorded channel, or one that was created and never recorded.
Found ==
    IF record.channel # 0 /\ channels[record.channel] # "none" THEN record.channel
    ELSE IF ~player.left /\ \E c \in 1..MaxChannels : channels[c] = "shown"
         THEN CHOOSE c \in 1..MaxChannels : channels[c] = "shown" ELSE 0

Goes(step) == holder' = [holder EXCEPT !.step = step]
Lets       == holder' = NoHolder

\* A step of the tick's ensure that ends it.
Ends ==
    /\ holder' = NoHolder
    /\ tick' = IF holder.by = "tick" THEN [tick EXCEPT !.step = "alerts"] ELSE tick

\* The snapshot decides which way.
EnsureReads ==
    /\ tick.step = "ensure" /\ holder.by = "nobody"
    /\ LET way(step) == /\ holder' = [by |-> "tick", channel |-> Found, step |-> step]
                        /\ UNCHANGED tick
           done == tick' = [tick EXCEPT !.step = "alerts"] /\ UNCHANGED holder
       IN IF ~on THEN IF Found # 0 /\ (~record.archived \/ record.intro # "off")
                      THEN way("archive") ELSE done
          ELSE IF ~Enabled THEN IF Found # 0 THEN way("archive") ELSE done
          ELSE IF ~player.notify THEN done
          ELSE way(IF Found = 0 THEN "make" ELSE "set")
    /\ UNCHANGED <<ChannelOnly, record, channels>>

\* create_text_channel, which may land though it failed.
Make ==
    /\ holder.step = "make"
    /\ \E c \in 1..MaxChannels :
          /\ channels[c] = "none"
          /\ channels' = [channels EXCEPT ![c] = "shown"]
          /\ \/ /\ holder' = [holder EXCEPT !.channel = c, !.step = "set"]
                /\ UNCHANGED <<tick, refusals>>
             \/ Fault /\ Ends
    /\ UNCHANGED <<on, player, linked, read, saves, record>>

\* set_channel: a new channel begins archived and without its note.
SetChannel ==
    /\ holder.step = "set"
    /\ record' = IF record.channel = holder.channel THEN record
                 ELSE [channel |-> holder.channel, archived |-> TRUE, intro |-> "none"]
    /\ Goes(IF holder.by = "tick" THEN "show" ELSE "intro")
    /\ UNCHANGED <<ChannelOnly, channels, tick>>

Show ==
    /\ holder.step = "show"
    /\ channels' = [channels EXCEPT ![holder.channel] = "shown"]
    /\ Goes("recheck")
    /\ UNCHANGED <<ChannelOnly, record, tick>>

\* The access can be withdrawn while Discord is busy.
Recheck ==
    /\ holder.step \in {"recheck", "again"}
    /\ Goes(IF ~Enabled THEN "archive"
            ELSE IF holder.step = "again" \/ ~player.notify THEN "open" ELSE "intro")
    /\ UNCHANGED <<ChannelOnly, record, channels, tick>>

\* _intro, and the owner's pinned link.
Intro ==
    /\ holder.step = "intro"
    /\ record' = [record EXCEPT !.intro = "up"]
    /\ Goes(IF holder.by = "tick" THEN "again" ELSE "open")
    /\ UNCHANGED <<ChannelOnly, channels, tick>>

Open ==
    /\ holder.step = "open"
    /\ record' = [record EXCEPT !.archived = FALSE]
    /\ Ends
    /\ UNCHANGED <<ChannelOnly, channels>>

\* _archive: the flag first, then the channel.
Archive ==
    /\ holder.step = "archive"
    /\ record' = [record EXCEPT !.archived = TRUE]
    /\ Goes("hide")
    /\ UNCHANGED <<ChannelOnly, channels, tick>>

\* Mutant of Hide: the channel stays as it is.
HideNot ==
    /\ holder.step = "hide"
    /\ IF on THEN Ends ELSE Goes("off") /\ UNCHANGED tick
    /\ UNCHANGED <<ChannelOnly, channels, record>>

Hide ==
    /\ holder.step = "hide"
    /\ channels' = [channels EXCEPT ![holder.channel] = "hidden"]
    /\ IF on THEN Ends ELSE Goes("off") /\ UNCHANGED tick
    /\ UNCHANGED <<ChannelOnly, record>>

\* _shutdown_intro: the note says why, once.
SaysOff ==
    /\ holder.step = "off"
    /\ record' = [record EXCEPT !.intro = "off"]
    /\ Ends
    /\ UNCHANGED <<ChannelOnly, channels>>

\* Discord or the database refuses, or the 15 seconds are over, also waiting for the lock.
EnsureFails ==
    /\ \/ holder.by # "nobody" /\ Ends
       \/ /\ holder.by = "owner" /\ tick.step = "ensure"
          /\ tick' = [tick EXCEPT !.step = "alerts"] /\ UNCHANGED holder
    /\ Fault
    /\ UNCHANGED <<on, player, linked, read, saves, record, channels>>

\* `!shiny canal`: an approved profile is switched on and gets a channel if it has none.
OpenByHand ==
    /\ holder.by = "nobody" /\ linked /\ player.access
    /\ player' = [player EXCEPT !.map = @ \/ ~player.left]
    /\ holder' = IF player.left \/ (record.channel # 0 /\ channels[record.channel] # "none")
                 THEN NoHolder
                 ELSE [by |-> "owner", channel |-> 0, step |-> "make"]
    /\ UNCHANGED <<on, linked, record, channels, tick, read, shinyBounds>>

-------------------------------------------------------------------------------
(* The tick around it.                                                       *)

\* Which save will be confirmed is read first.
TickBegins ==
    /\ tick.step = "idle"
    /\ tick' = [step    |-> IF Enabled \/ record.channel # 0 THEN "ensure" ELSE "alerts",
                pending |-> IF player.applied < player.revision THEN player.revision ELSE 0]
    /\ UNCHANGED <<ChannelOnly, record, channels, holder>>

\* The alerts read every switch afresh.
ReadsSettings ==
    /\ tick.step = "alerts"
    /\ read' = player.revision
    /\ tick' = [tick EXCEPT !.step = "confirm"]
    /\ UNCHANGED <<on, player, linked, shinyBounds, record, channels, holder>>

Active == record.channel # 0 /\ ~record.archived

\* Not while the channel disagrees with the switch.
Agrees ==
    /\ ~(Enabled /\ player.notify /\ linked /\ ~(Active /\ record.intro # "none"))
    /\ ~(~Enabled /\ Active)

\* Mutant of Confirms: the revision of the moment is confirmed.
ConfirmsLatest ==
    /\ tick.step = "confirm"
    /\ player' = IF player.applied < player.revision /\ Agrees
                 THEN [player EXCEPT !.applied = player.revision] ELSE player
    /\ tick' = [step |-> "idle", pending |-> 0]
    /\ UNCHANGED <<on, linked, read, shinyBounds, record, channels, holder>>

Confirms ==
    /\ tick.step = "confirm"
    /\ player' = IF player.applied < tick.pending /\ Agrees
                 THEN [player EXCEPT !.applied = tick.pending] ELSE player
    /\ tick' = [step |-> "idle", pending |-> 0]
    /\ UNCHANGED <<on, linked, read, shinyBounds, record, channels, holder>>

-------------------------------------------------------------------------------
HolderStep == Make \/ SetChannel \/ Show \/ Recheck \/ Intro \/ Open \/ Archive \/ Hide \/ SaysOff
TickStep   == TickBegins \/ EnsureReads \/ ReadsSettings \/ Confirms

ShinyNext ==
    \/ SavesSettings \/ Departs \/ Links
    \/ HolderStep \/ TickStep \/ EnsureFails \/ OpenByHand

ShinySpec == ShinyInit /\ [][ShinyNext]_shinyVars

-------------------------------------------------------------------------------
(* Properties.                                                               *)

\* The site is never told that a save is applied which the tick had not read: a save during the
\* tick waits for the next one.
ConfirmedWasRead == player.applied <= read

\* Who loses the access, leaves or switches the map off stops seeing the channel on record,
\* whatever failed on the way.
Seen == record.channel # 0 /\ channels[record.channel] = "shown"
OffIsHidden == []<>(Enabled \/ ~Seen)

\* The site does not wait for ever: while the alerts are on, every save is confirmed.
SavesAreConfirmed == []<>(on => player.applied = player.revision)
===============================================================================
