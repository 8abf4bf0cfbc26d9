----------------------------- MODULE DeviceWatch -----------------------------
(***************************************************************************)
(* The watch over the scanner's phone (modules/device_manager.py,          *)
(* alert_if_offline) and the setting that switches it on and off           *)
(* (modules/cached_bool_setting.py, !device autoreboot). Every scheduler   *)
(* tick asks Rotom whether a phone is connected; the moderators are told   *)
(* when none has been for AlertAfter ticks, again at a growing interval,   *)
(* and once when it is back. What was said is remembered before it is      *)
(* sent, and a message that cannot be sent is dropped.                     *)
(*                                                                         *)
(* Times are ages in ticks, no higher than Horizon.                        *)
(***************************************************************************)
EXTENDS Integers

CONSTANTS
    AlertAfter,    \* OFFLINE_BEFORE_ALERT
    ShortGap,      \* between alerts of an outage younger than LongOutage
    LongGap,       \* and of an older one
    LongOutage,
    Horizon        \* the oldest age told apart

ASSUME DeviceWatchAssumption ==
    /\ {AlertAfter, ShortGap, LongGap, LongOutage, Horizon} \subseteq Nat \ {0}
    /\ AlertAfter + ShortGap <= LongOutage /\ ShortGap <= LongGap
    /\ LongOutage + LongGap <= Horizon

NotSince == -1
Ages == NotSince..Horizon

VARIABLES
    offline,   \* age of _offline_since
    notified,  \* age of _last_notification_time
    cached,    \* _auto_reboot_setting._cached, or "unread"
    stored,    \* the setting's column in the poliswag table
    saying,    \* observation: what the owner was last answered about it
    modChan,   \* MOD_CHANNEL was resolved at the last connection
    believed,      \* observation: the phone as the moderators were last told
    dark,      \* observation: ticks in a row that Rotom showed no phone
    clean,     \* observation: since the moderators last knew, nothing was lost
    skipped,   \* observation: a check was skipped since _offline_since
    lostWrite  \* observation: the last change of the setting failed

setting == <<cached, stored, saying, lostWrite>>
watch   == <<offline, notified, believed, dark, clean, skipped>>
deviceVars == <<setting, watch, modChan>>

DeviceTypeOK ==
    /\ {offline, notified} \subseteq Ages
    /\ dark \in 0..Horizon
    /\ cached \in {"on", "off", "unread"}
    /\ {stored, saying} \subseteq {"on", "off"}
    /\ believed \in {"up", "down"}
    /\ {modChan, clean, skipped, lostWrite} \subseteq BOOLEAN

DeviceInit ==
    /\ offline = NotSince /\ notified = NotSince /\ dark = 0
    /\ cached = "unread" /\ stored = "on" /\ saying = "on"
    /\ modChan = TRUE /\ believed = "up" /\ clean = TRUE
    /\ skipped = FALSE /\ lostWrite = FALSE

Older(age) == IF age \in {NotSince, Horizon} THEN age ELSE age + 1

-------------------------------------------------------------------------------
\* The setting: a failed read is answered with the default and read again, a
\* failed write is logged and the command answers all the same.

Reads(ok) == IF cached = "unread" /\ ok THEN stored ELSE cached
Enabled(ok) == Reads(ok) # "off"

SaveSetting(value, how) ==
    /\ how \in {"ok", "refused", "landed"}
    /\ stored' = IF how = "refused" THEN stored ELSE value
    /\ cached' = IF how = "ok" THEN value ELSE cached
    /\ lostWrite' = (how # "ok")

Switch(value, how) ==
    /\ SaveSetting(value, how)
    /\ saying' = value
    /\ UNCHANGED <<watch, modChan>>

-------------------------------------------------------------------------------
\* One check. `sends` is whether Discord takes the message, if there is one.

NextGap(age) == IF age < LongOutage THEN ShortGap ELSE LongGap

\* _notify: without the channel, or when the send fails, nobody is told and the
\* caller is not either.
Notify(what, sends) ==
    LET told == modChan /\ sends IN
    /\ believed' = IF told THEN what ELSE believed
    /\ clean' = told

Quietly == UNCHANGED <<believed, clean>>

\* Mutant of BackOnline: only an outage that was alerted about is forgotten.
BackOnline_KeepsClock(sends) ==
    /\ IF notified # NotSince /\ offline # NotSince THEN Notify("up", sends) ELSE Quietly
    /\ offline' = IF notified = NotSince THEN offline ELSE NotSince
    /\ notified' = NotSince
    /\ skipped' = FALSE

BackOnline(sends) ==
    /\ IF notified # NotSince /\ offline # NotSince THEN Notify("up", sends) ELSE Quietly
    /\ offline' = NotSince
    /\ notified' = NotSince
    /\ skipped' = FALSE

Due(since, last) ==
    /\ since >= AlertAfter
    /\ last = NotSince \/ last >= NextGap(since)

StillOffline(sends) ==
    LET since == Older(offline)
        last == Older(notified)
    IN
    /\ UNCHANGED skipped
    /\ IF offline = NotSince
       THEN offline' = 0 /\ notified' = last /\ Quietly
       ELSE /\ offline' = since
            /\ IF Due(since, last)
               THEN notified' = 0 /\ Notify("down", sends)
               ELSE notified' = last /\ Quietly

\* Rotom not answering counts as no phone connected.
AlertIfOffline(connected, reads, sends) ==
    /\ cached' = Reads(reads)
    /\ dark' = IF connected THEN 0 ELSE IF dark < Horizon THEN dark + 1 ELSE dark
    /\ IF Enabled(reads)
       THEN IF connected THEN BackOnline(sends) ELSE StillOffline(sends)
       ELSE /\ offline' = Older(offline)
            /\ notified' = Older(notified)
            /\ skipped' = (offline # NotSince)
            /\ Quietly
    /\ UNCHANGED <<stored, saying, lostWrite, modChan>>

-------------------------------------------------------------------------------
\* A (re)connection to Discord resolves the channels again, one by one.
GetChannels(found) ==
    /\ modChan' = found
    /\ UNCHANGED <<setting, watch>>

DeviceRestart ==
    /\ offline' = NotSince /\ notified' = NotSince /\ cached' = "unread"
    /\ clean' = (clean /\ notified = NotSince)
    /\ skipped' = FALSE
    /\ UNCHANGED <<stored, saying, lostWrite, modChan, believed, dark>>

DeviceNext ==
    \/ \E v \in {"on", "off"}, how \in {"ok", "refused", "landed"} : Switch(v, how)
    \/ \E connected, reads, sends \in BOOLEAN : AlertIfOffline(connected, reads, sends)
    \/ \E found \in BOOLEAN : GetChannels(found)
    \/ DeviceRestart

-------------------------------------------------------------------------------
\* While no message was lost, the moderators know exactly what the bot believes
\* it told them: an outage it alerted about is open, and no other is.
ModsKnow == clean => (believed = "down") = (notified # NotSince)

\* An outage of which no check was skipped is as long as the bot takes it to be:
\* Rotom showed no phone at any check since.
OutageIsReal == offline # NotSince /\ ~skipped => dark > offline \/ dark = Horizon

\* Such an outage past the delay has been alerted about, and again in time.
OutageIsAlerted ==
    offline >= AlertAfter /\ ~skipped => notified \in 0..NextGap(offline) - 1

\* A change of the setting that did not fail holds, for this process and for the
\* next one.
SettingHolds == ~lostWrite => stored = saying /\ cached \in {"unread", stored}

\* What the watch over the phone promises the moderators
\* (DeviceManager.alert_if_offline).
PhoneIsFollowed == ModsKnow /\ OutageIsReal /\ OutageIsAlerted /\ SettingHolds

=============================================================================
