---------------------------- MODULE PhoneCommands ----------------------------
(***************************************************************************)
(* Commands on the scanner's phone over adb (modules/device_manager.py):   *)
(* the recovery ladder's restart of the apps and the owner's !device       *)
(* commands (cogs/container_manager.py). Each is a coroutine of its own,   *)
(* and all share one adb session. A command connects, asks for the state   *)
(* of the session, puts a stale one through the cycle disconnect,          *)
(* kill-server, start-server, connect, and then runs.                      *)
(***************************************************************************)
EXTENDS Integers, Sequences

CONSTANTS
    Ladder,     \* the coroutine of the scheduler's tick
    Owner,      \* the coroutine of the owner's command
    MaxFlaps,   \* bound: times the phone drops its connection
    MaxHangs,   \* bound: adb calls that time out
    MaxOps      \* bound: operations asked for

ASSUME PhoneCommandsAssumption ==
    /\ Ladder # Owner
    /\ {MaxFlaps, MaxHangs, MaxOps} \subseteq Nat

Coroutines == {Ladder, Owner}

\* restart_scanner_apps, restart_app, reboot, and the calls that only read
\* (get_model, logcat_filtered, phone_health).
CommandsOf == [ scanner_apps |-> <<"stop_game", "stop_aegis", "settle", "start_aegis">>,
           restart_app  |-> <<"stop_game", "start_game">>,
           reboot       |-> <<"reboot">>,
           read         |-> <<"read">> ]
OpsOf(j) == IF j = Ladder THEN {"scanner_apps", "read"}
            ELSE {"restart_app", "reboot", "read"}

VARIABLES
    session,   \* adb's session with the phone
    apps,      \* the apps that run: the game and Aegis's mapping service
    at,        \* where each coroutine is in DeviceManager.run
    left,      \* the commands it has still to run
    flaps, hangs, ops,
    refused    \* observation: an operation on the apps failed since both ran

phoneVars == <<session, apps, at, left, flaps, hangs, ops, refused>>

Recovery == <<"disconnect", "kill-server", "start-server", "reconnect">>
AllApps == {"game", "aegis"}

PhoneTypeOK ==
    /\ session \in {"device", "stale", "none", "away"}
    /\ apps \subseteq AllApps
    /\ at \in [Coroutines -> {"idle", "connect", "get-state", "command", "settle"}
                       \union {Recovery[i] : i \in DOMAIN Recovery}]
    /\ \A j \in Coroutines : left[j] \in Seq(STRING)
    /\ flaps \in 0..MaxFlaps /\ hangs \in 0..MaxHangs /\ ops \in 0..MaxOps
    /\ refused \in BOOLEAN

PhoneInit ==
    /\ session \in {"device", "stale"} /\ apps = AllApps
    /\ at = [j \in Coroutines |-> "idle"]
    /\ left = [j \in Coroutines |-> <<>>]
    /\ flaps = 0 /\ hangs = 0 /\ ops = 0
    /\ refused = FALSE

-------------------------------------------------------------------------------
Go(j, where) == at' = [at EXCEPT ![j] = where]

Ask(j, op) ==
    /\ at[j] = "idle" /\ ops < MaxOps
    /\ ops' = ops + 1
    /\ left' = [left EXCEPT ![j] = CommandsOf[op]]
    /\ Go(j, "connect")
    /\ UNCHANGED <<session, apps, flaps, hangs, refused>>

\* A flapping phone leaves its session unauthorized or offline.
Flap ==
    /\ session = "device" /\ flaps < MaxFlaps
    /\ flaps' = flaps + 1
    /\ session' = "stale"
    /\ UNCHANGED <<apps, at, left, hangs, ops, refused>>

\* A phone that was rebooted answers again; its apps come back with it.
Boot ==
    /\ session = "away"
    /\ session' = "none"
    /\ UNCHANGED <<apps, at, left, flaps, hangs, ops, refused>>

\* connect does nothing to a session that exists, stale or not.
Connected == IF session = "none" THEN "device" ELSE session

Connect(j) ==
    /\ at[j] = "connect"
    /\ session' = Connected
    /\ Go(j, "get-state")
    /\ UNCHANGED <<apps, left, flaps, hangs, ops, refused>>

DeviceState(j) ==
    /\ at[j] = "get-state"
    /\ Go(j, IF session = "device" THEN "command" ELSE Recovery[1])
    /\ UNCHANGED <<session, apps, left, flaps, hangs, ops, refused>>

\* _recover_session, one adb call at a time; a call that fails is passed over.
RecoverSession(j, works) ==
    \E i \in DOMAIN Recovery :
        /\ at[j] = Recovery[i]
        /\ Go(j, IF i = Len(Recovery) THEN "command" ELSE Recovery[i + 1])
        /\ hangs' = IF works THEN hangs ELSE hangs + 1
        /\ hangs' <= MaxHangs
        /\ session' = IF ~works \/ Recovery[i] = "start-server" THEN session
                      ELSE IF Recovery[i] = "reconnect" THEN Connected
                      ELSE IF session = "away" THEN session ELSE "none"
        /\ UNCHANGED <<apps, left, flaps, ops, refused>>

-------------------------------------------------------------------------------
\* What a command that reaches the phone does to its apps. Aegis starts the game
\* itself.
Effect(command) ==
    IF command = "stop_game" THEN apps \ {"game"}
    ELSE IF command = "stop_aegis" THEN apps \ {"aegis"}
    ELSE IF command = "start_game" THEN apps \union {"game"}
    ELSE IF command = "start_aegis" THEN AllApps
    ELSE apps

\* An operation is over at its last command or at the first that fails.
End(j) == Go(j, "idle") /\ left' = [left EXCEPT ![j] = <<>>]

Advance(j) ==
    LET rest == Tail(left[j]) IN
    IF rest = <<>> THEN End(j)
    ELSE /\ Go(j, IF Head(rest) = "settle" THEN "settle" ELSE "connect")
         /\ left' = [left EXCEPT ![j] = rest]

Touches(j) == left[j][1] \notin {"read", "reboot"}

Command(j) ==
    /\ at[j] = "command"
    /\ session = "device"
    /\ apps' = Effect(Head(left[j]))
    /\ refused' = (refused /\ apps' # AllApps)
    /\ session' = IF Head(left[j]) = "reboot" THEN "away" ELSE session
    /\ Advance(j)
    /\ UNCHANGED <<flaps, hangs, ops>>

CommandFails(j) ==
    /\ at[j] = "command"
    /\ session # "device"
    /\ refused' = (refused \/ Touches(j))
    /\ End(j)
    /\ UNCHANGED <<session, apps, flaps, hangs, ops>>

\* adb is killed when it does not end in time, whether the command ran or not.
\* The phone's state not being read starts the recovery; connect raises.
CommandHangs(j, ran) ==
    /\ at[j] \in {"connect", "command"} /\ hangs < MaxHangs
    /\ at[j] = "connect" => ~ran
    /\ hangs' = hangs + 1
    /\ apps' = IF ran /\ session = "device" THEN Effect(Head(left[j])) ELSE apps
    /\ refused' = ((refused \/ Touches(j)) /\ apps' # AllApps)
    /\ End(j)
    /\ UNCHANGED <<session, flaps, ops>>

StateHangs(j) ==
    /\ at[j] = "get-state" /\ hangs < MaxHangs
    /\ hangs' = hangs + 1
    /\ Go(j, Recovery[1])
    /\ UNCHANGED <<session, apps, left, flaps, ops, refused>>

\* APP_RESTART_SETTLE.
Settled(j) ==
    /\ at[j] = "settle"
    /\ left' = [left EXCEPT ![j] = Tail(@)]
    /\ Go(j, "connect")
    /\ UNCHANGED <<session, apps, flaps, hangs, ops, refused>>

PhoneNext ==
    \/ Flap \/ Boot
    \/ \E j \in Coroutines :
           \/ \E op \in OpsOf(j) : Ask(j, op)
           \/ Connect(j) \/ DeviceState(j) \/ StateHangs(j)
           \/ \E works \in BOOLEAN : RecoverSession(j, works)
           \/ Command(j) \/ CommandFails(j) \/ Settled(j)
           \/ \E ran \in BOOLEAN : CommandHangs(j, ran)

PhoneSpec == PhoneInit /\ [][PhoneNext]_phoneVars

-------------------------------------------------------------------------------
\* An app that is not running is being restarted, or a restart was reported as
\* failed: no restart that answered that it worked left one stopped, whatever the
\* other coroutine did to the phone meanwhile.
StoppedIsKnown ==
    apps # AllApps => refused \/ \E j \in Coroutines : left[j] # <<>> /\ Touches(j)

=============================================================================
