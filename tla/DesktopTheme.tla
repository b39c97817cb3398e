----------------------------- MODULE DesktopTheme -----------------------------
(***************************************************************************)
(* Following the desktop's Omarchy theme                                   *)
(* (crates/app/src/appearance/omarchy.rs): the reread loop, the watch of   *)
(* current/ and the choices that wait for a read.                          *)
(*                                                                         *)
(* The desktop's tools replace theme/ under current/, or move current/     *)
(* away, at any time.  One loop rereads it, at once or after the writes    *)
(* settle; a watch, made on another thread, asks for rereads while the     *)
(* theme is selected or Settings is open.  What a file holds is a value:   *)
(* one of Good, Broken (it does not parse) or Missing.  Quiet periods end  *)
(* whenever the loop finds no further request.                             *)
(***************************************************************************)
EXTENDS Integers, Sequences, FiniteSets, SequencesExt

CONSTANTS
    Good,          \* themes that map to a palette
    MaxWrites,     \* bound: changes under current/
    MaxUser,       \* bound: selections, Settings opened or closed, focus returns
    MaxChoices     \* bound: choices of the card

Broken == "broken"
Missing == "missing"
NoPalette == "default"

VARIABLES
    theme,        \* what theme/colors.toml holds
    present,      \* current/ exists where it is watched
    version,      \* how often current/ changed
    following,    \* the theme is selected
    showing,      \* Settings is open
    watch,        \* Watch: "off", "starting", "on", "failed"
    epoch,        \* bumped whenever the watch starts or stops
    starting,     \* watchers being made: epoch -> "asked", "made", "failed"
    held,         \* the epoch of the watcher the follower holds, or 0
    alive,        \* epochs whose watcher still sees current/
    requests,     \* the reread queue
    stage,        \* the loop: "idle", "settling", "begun", "read"
    lost,         \* lost watches the running reread was told of
    found,        \* what the running reread found, and when
    generation,   \* the latest reread started
    waiting,      \* choices waiting for a read, with what they must see
    shown,        \* Omarchy: availability and the last good palette
    users         \* user actions so far

desktopVars == <<theme, present, version>>
userVars == <<following, showing, users>>
watchVars == <<watch, epoch, starting, held>>
loopVars == <<stage, lost, found, generation>>
followerVars == <<desktopVars, userVars, watchVars, alive, requests, loopVars, waiting, shown>>

Now == <<"now", 0>>
Settled == <<"settled", 0>>
Lost(e) == <<"lost", e>>
NoEpochs == [e \in {} |-> 0]

(***************************************************************************)
(* wanted and sync_watch.  Settings starts a watch only while the card is  *)
(* offered but keeps a running one when the card goes.                     *)
(***************************************************************************)
Wanted(follows, shows, watching, offered) ==
    follows \/ (shows /\ (watching # "off" \/ offered))

(* start_watch: a new epoch, and a watcher asked for on another thread.    *)
StartWatch(next) ==
    /\ watch' = "starting"
    /\ epoch' = next
    /\ starting' = [e \in DOMAIN starting \cup {next} |->
                      IF e = next THEN "asked" ELSE starting[e]]
    /\ held' = 0
    /\ alive' = alive \ {held}

StopWatch ==
    /\ watch' = "off"
    /\ epoch' = epoch + 1
    /\ held' = 0
    /\ alive' = alive \ {held}
    /\ UNCHANGED starting

(* A watch that starts asks for one read; two epochs pass, one for the     *)
(* decision and one for the start.                                         *)
SyncWatch(follows, shows, offered, queue) ==
    LET wanted == Wanted(follows, shows, watch, offered)
    IN  IF wanted = (watch # "off")
        THEN requests' = queue /\ UNCHANGED <<watchVars, alive>>
        ELSE IF wanted
             THEN requests' = Append(queue, Now) /\ StartWatch(epoch + 2)
             ELSE requests' = queue /\ StopWatch

(***************************************************************************)
(* What the user does.                                                     *)
(***************************************************************************)
Act == users < MaxUser /\ users' = users + 1

Follow(selected) ==
    /\ following # selected
    /\ Act
    /\ following' = selected
    /\ SyncWatch(selected, showing, shown.available, requests)
    /\ UNCHANGED <<desktopVars, showing, loopVars, waiting, shown>>

Show(open) ==
    /\ showing # open
    /\ Act
    /\ showing' = open
    /\ SyncWatch(following, open, shown.available, requests)
    /\ UNCHANGED <<desktopVars, following, loopVars, waiting, shown>>

(* refresh: a window regained focus.                                       *)
Refresh ==
    /\ Act
    /\ requests' = Append(requests, Now)
    /\ IF watch = "failed" THEN StartWatch(epoch + 1)
       ELSE UNCHANGED <<watchVars, alive>>
    /\ UNCHANGED <<desktopVars, following, showing, loopVars, waiting, shown>>

(* read_now, then follow(true): a choice of the card.                      *)
Choose ==
    /\ Cardinality(waiting) < MaxChoices
    /\ Act
    /\ waiting' = waiting \cup {[after |-> generation, version |-> version]}
    /\ following' = TRUE
    /\ SyncWatch(TRUE, showing, shown.available, Append(requests, Now))
    /\ UNCHANGED <<desktopVars, showing, loopVars, shown>>

(***************************************************************************)
(* The watcher's thread: it is made, or fails without the directory, and   *)
(* its reply is kept only for the epoch that asked and still starts.       *)
(***************************************************************************)
MakeWatcher(e) ==
    /\ starting[e] = "asked"
    /\ starting' = [starting EXCEPT ![e] = IF present THEN "made" ELSE "failed"]
    /\ alive' = IF present THEN alive \cup {e} ELSE alive
    /\ UNCHANGED <<desktopVars, userVars, watch, epoch, held, requests, loopVars,
                   waiting, shown>>

Forget(e) == [i \in DOMAIN starting \ {e} |-> starting[i]]

TakeWatcher(e) ==
    /\ starting[e] # "asked"
    /\ starting' = Forget(e)
    /\ IF e = epoch /\ watch = "starting"
       THEN IF starting[e] = "made"
            THEN watch' = "on" /\ held' = e /\ UNCHANGED alive
            ELSE watch' = "failed" /\ UNCHANGED <<held, alive>>
       ELSE alive' = alive \ {e} /\ UNCHANGED <<watch, held>>
    /\ UNCHANGED <<desktopVars, userVars, epoch, requests, loopVars, waiting, shown>>

(***************************************************************************)
(* The desktop.  omarchy-theme-set removes theme/ and moves the next one   *)
(* into place; a migration moves current/ itself away and back.  Every     *)
(* watcher that sees current/ reports it.                                  *)
(***************************************************************************)
WriteTheme(to) ==
    /\ present /\ version < MaxWrites
    /\ theme # to
    /\ theme' = to
    /\ version' = version + 1
    /\ requests' = IF alive = {} THEN requests ELSE Append(requests, Settled)
    /\ UNCHANGED <<present, userVars, watchVars, alive, loopVars, waiting, shown>>

MoveAway ==
    /\ present /\ version < MaxWrites
    /\ present' = FALSE
    /\ theme' = Missing
    /\ version' = version + 1
    /\ alive' = {}
    /\ requests' = requests \o SetToSeq({Lost(e) : e \in alive})
    /\ UNCHANGED <<userVars, watchVars, loopVars, waiting, shown>>

MoveBack ==
    /\ ~present /\ version < MaxWrites
    /\ present' = TRUE
    /\ theme' \in Good
    /\ version' = version + 1
    /\ UNCHANGED <<userVars, watchVars, alive, requests, loopVars, waiting, shown>>

(***************************************************************************)
(* The reread loop.                                                        *)
(***************************************************************************)
LostEpochs(queue) == {e \in 1..epoch : \E i \in DOMAIN queue : queue[i] = Lost(e)}

(* The watches a request said are lost fail, unless stopped or replaced.   *)
\* Mutant: a lost watch is not remembered
LosingNothing(epochs) == UNCHANGED <<watch, held, alive>>
Losing(epochs) ==
    IF epoch \in epochs /\ watch # "off"
    THEN watch' = "failed" /\ held' = 0 /\ alive' = alive \ {held}
    ELSE UNCHANGED <<watch, held, alive>>

(* begin, after everything queued meanwhile joined this reread.            *)
BeginReread ==
    /\ \/ stage = "idle" /\ requests # <<>> /\ Head(requests) = Now
       \/ stage = "settling"
    /\ Losing(lost \cup LostEpochs(requests))
    /\ lost' = {}
    /\ requests' = <<>>
    /\ stage' = "begun"
    /\ generation' = generation + 1
    /\ UNCHANGED <<desktopVars, userVars, epoch, starting, found, waiting, shown>>

(* A watched write starts a quiet period.                                  *)
BeginSettling ==
    /\ stage = "idle" /\ requests # <<>> /\ Head(requests) # Now
    /\ stage' = "settling"
    /\ lost' = LostEpochs(<<Head(requests)>>)
    /\ requests' = Tail(requests)
    /\ UNCHANGED <<desktopVars, userVars, watchVars, alive, found, generation, waiting,
                   shown>>

(* A request in a quiet period joins it.                                   *)
JoinSettling ==
    /\ stage = "settling" /\ requests # <<>>
    /\ lost' = lost \cup LostEpochs(<<Head(requests)>>)
    /\ requests' = Tail(requests)
    /\ UNCHANGED <<desktopVars, userVars, watchVars, alive, stage, found, generation,
                   waiting, shown>>

(* read, on the background executor.                                       *)
ReadTheme ==
    /\ stage = "begun"
    /\ stage' = "read"
    /\ found' = [theme |-> theme, version |-> version]
    /\ UNCHANGED <<desktopVars, userVars, watchVars, alive, requests, lost, generation,
                   waiting, shown>>

(* Shown::after: a reading without a palette keeps the last good one.      *)
After(reading) ==
    [available |-> reading # Missing,
     palette |-> IF reading \in Good THEN reading ELSE shown.palette]

(* The choices a finished read answers: those made before it began.        *)
Answered == {c \in waiting : c.after < generation}

Finish ==
    /\ stage = "read"
    /\ stage' = "idle"
    /\ shown' = After(found.theme)
    /\ waiting' = waiting \ Answered
    /\ SyncWatch(following, showing, found.theme # Missing, requests)
    /\ UNCHANGED <<desktopVars, userVars, lost, found, generation>>

-----------------------------------------------------------------------------
(* install, and follow when the theme is selected at launch.               *)
FollowerInit ==
    /\ theme \in Good /\ present = TRUE /\ version = 0
    /\ following \in BOOLEAN /\ showing = FALSE /\ users = 0
    /\ epoch = (IF following THEN 2 ELSE 0)
    /\ watch = (IF following THEN "starting" ELSE "off")
    /\ starting = (IF following THEN [e \in {2} |-> "asked"] ELSE NoEpochs)
    /\ held = 0 /\ alive = {}
    /\ requests = (IF following THEN <<Now, Now>> ELSE <<Now>>)
    /\ stage = "idle" /\ lost = {} /\ generation = 0
    /\ found = [theme |-> Missing, version |-> 0]
    /\ waiting = {}
    /\ shown = [available |-> FALSE, palette |-> NoPalette]

Desktop == (\E to \in Good \cup {Broken, Missing} : WriteTheme(to)) \/ MoveAway \/ MoveBack
User == (\E on \in BOOLEAN : Follow(on) \/ Show(on)) \/ Choose \/ Refresh
Watcher == \E e \in DOMAIN starting : MakeWatcher(e) \/ TakeWatcher(e)
Loop == BeginReread \/ BeginSettling \/ JoinSettling \/ ReadTheme \/ Finish

FollowerNext == Desktop \/ User \/ Watcher \/ Loop

FollowerSpec == FollowerInit /\ [][FollowerNext]_followerVars
(* Both executors run what is ready; quiet periods end.                    *)
FairFollowerSpec == FollowerSpec /\ WF_followerVars(Loop) /\ WF_followerVars(Watcher)

-----------------------------------------------------------------------------
(* Types; a watcher that sees current/ is held, or its maker's reply is    *)
(* still to be taken.                                                      *)
FollowerTypeOK ==
    /\ theme \in Good \cup {Broken, Missing}
    /\ present \in BOOLEAN /\ following \in BOOLEAN /\ showing \in BOOLEAN
    /\ watch \in {"off", "starting", "on", "failed"}
    /\ epoch \in Nat /\ held \in 0..epoch /\ generation \in Nat
    /\ DOMAIN starting \subseteq 1..epoch
    /\ starting \in [DOMAIN starting -> {"asked", "made", "failed"}]
    /\ alive \subseteq DOMAIN starting \cup ({held} \ {0})
    /\ requests \in Seq({"now", "settled", "lost"} \X Nat)
    /\ stage \in {"idle", "settling", "begun", "read"}
    /\ lost \subseteq 1..epoch
    /\ shown \in [available : BOOLEAN, palette : Good \cup {NoPalette}]

(***************************************************************************)
(* A watch exists exactly while one is wanted, whatever the reads found,   *)
(* wherever late watchers arrive (omarchy.rs:524, :535, :445).             *)
(***************************************************************************)
WatchedAsWanted == (watch # "off") <=> Wanted(following, showing, watch, shown.available)

(***************************************************************************)
(* A watch believed to be on sees current/, or the request saying that it  *)
(* was lost is on its way to the loop (omarchy.rs:425, :564).              *)
(***************************************************************************)
HeldSees ==
    watch = "on" => \/ held \in alive
                    \/ epoch \in lost \cup LostEpochs(requests)

(***************************************************************************)
(* No watcher is left behind: the one held is that of the latest epoch,    *)
(* and the watch is on (omarchy.rs:564).                                   *)
(***************************************************************************)
OnlyOneIsHeld == held # 0 => watch = "on" /\ held = epoch

(***************************************************************************)
(* current/ is watched exactly while something needs it, by one watcher    *)
(* that sees it or whose loss is being told (sync_watch, start_watch).     *)
(***************************************************************************)
WatchIsReal == FollowerTypeOK /\ WatchedAsWanted /\ HeldSees /\ OnlyOneIsHeld

(***************************************************************************)
(* Every choice is answered (omarchy.rs:481, :445).                        *)
(***************************************************************************)
ChoicesAnswered == waiting # {} ~> waiting = {}

=============================================================================
