------------------------- MODULE TimedRegistration -------------------------
(***************************************************************************)
(* Registration with the clocks of its threads: net_dllbrd broadcasts and  *)
(* sleeps brditv seconds (ac/net.c); message_travel sleeps msgitv seconds  *)
(* and then handles all there is (ac/aphash.c, ap/message.c). The periods  *)
(* are options, or come from lib/arg.c. A frame sent in a second has       *)
(* arrived when the next one begins; handling takes no time. That what has *)
(* arrived is handled in the next round is true of one AC with one AP: an  *)
(* AC with several receives one frame per event and may be a broadcast     *)
(* behind (DllRecv), and nothing is claimed of it here.                    *)
(***************************************************************************)
EXTENDS Registration

CONSTANTS DefaultItv,   \* brditv and reportitv if the option is not given, 30
          Options       \* what the two command lines may say, 0 if nothing

ASSUME TimedRegistrationAssumption ==
    /\ \A c, d \in AC : c = d
    /\ \A n, o \in AP : n = o
    /\ DefaultItv \in Nat \ {0}
    /\ Options \subseteq [brditv : Nat, acmsgitv : Nat, reportitv : Nat, apmsgitv : Nat]

VARIABLES
    argument,           \* the options the processes were started with
    brdIn,              \* AC: seconds net_dllbrd still sleeps
    acIn, apIn,         \* AC, AP: seconds message_travel still sleeps
    young               \* frames sent in this second

timers == <<brdIn, acIn, apIn>>
timedVars == <<vars, argument, timers, young>>

\* __check_arg.
Default(itv) == IF itv = 0 THEN DefaultItv ELSE itv
brditv == Default(argument.brditv)
reportitv == Default(argument.reportitv)
acmsgitv == IF argument.acmsgitv = 0 THEN brditv \div 10 ELSE argument.acmsgitv
apmsgitv == IF argument.apmsgitv = 0 THEN reportitv \div 10 ELSE argument.apmsgitv

\* The APs have been running for some time when the ACs start.
TimedInit ==
    /\ Init /\ argument \in Options
    /\ brdIn = [a \in AC |-> 0] /\ acIn = [a \in AC |-> acmsgitv]
    /\ apIn \in [AP -> 0 .. apmsgitv]
    /\ young = {}

Untimed == UNCHANGED <<argument, timers>>
Sends == young' = (young \cap net') \cup (net' \ net)

\* message_travel, if awake, has handled what was there at the latest when this second
\* began; of what arrives in this second it may handle some before it sleeps again.
Handled_Some(who, in) == TRUE                   \* faulty: one message per round will do
Handled(who, in) == in = 0 => \A m \in net \ young : m.to # who

\* One second less to sleep; who was awake has gone to sleep for itv seconds first.
Less(in, itv) == IF in > 0 THEN in - 1 ELSE IF itv > 0 THEN itv - 1 ELSE 0

-----------------------------------------------------------------------------
TimedBroadcast(a) ==
    /\ brdIn[a] = 0 /\ Broadcast(a)
    /\ brdIn' = [brdIn EXCEPT ![a] = brditv]
    /\ Sends /\ UNCHANGED <<argument, acIn, apIn>>

AcTravels(a) == acIn[a] = 0 /\ (AcRecvReg(a) \/ AcRecvApResp(a)) /\ Sends /\ Untimed

ApTravels(p) == apIn[p] = 0 /\ (ApRecvBrd(p) \/ ApRecvResp(p)) /\ Sends /\ Untimed

\* A process that starts broadcasts at once and sleeps before it handles anything.
TimedAcStart(a) ==
    /\ AcStart(a)
    /\ brdIn' = [brdIn EXCEPT ![a] = 0] /\ acIn' = [acIn EXCEPT ![a] = acmsgitv]
    /\ Sends /\ UNCHANGED <<argument, apIn>>

TimedApRestart(p) ==
    /\ ApRestart(p)
    /\ apIn' = [apIn EXCEPT ![p] = apmsgitv]
    /\ Sends /\ UNCHANGED <<argument, brdIn, acIn>>

TimedAcCrash(a) == AcCrash(a) /\ Sends /\ Untimed
TimedLose == (\E m \in young : Lose(m)) /\ Sends /\ Untimed

\* A second passes. What was sent to an AC that is down may still reach the next one.
Tick ==
    /\ \A a \in AC : up[a] => brdIn[a] > 0 /\ Handled(a, acIn[a])
    /\ \A p \in AP : Handled(p, apIn[p])
    /\ brdIn' = [a \in AC |-> Less(brdIn[a], 0)]
    /\ acIn' = [a \in AC |-> Less(acIn[a], acmsgitv)]
    /\ apIn' = [p \in AP |-> Less(apIn[p], apmsgitv)]
    /\ young' = {}
    /\ UNCHANGED <<argument, vars>>

TimedNext ==
    \/ Tick \/ TimedLose
    \/ \E a \in AC : \/ TimedBroadcast(a) \/ AcTravels(a)
                     \/ TimedAcCrash(a) \/ TimedAcStart(a)
    \/ \E p \in AP : ApTravels(p) \/ TimedApRestart(p)

\* Time passes, a thread whose sleep is over goes on, a dead AC is started again.
\* Nothing is promised of an AC whose pool was overdrawn.
TimedFairness ==
    /\ WF_timedVars(Tick)
    /\ \A a \in AC : /\ WF_timedVars(TimedBroadcast(a)) /\ WF_timedVars(TimedAcStart(a))
                     /\ WF_timedVars(AcTravels(a) /\ ~corrupt[a])
    /\ \A p \in AP : WF_timedVars(ApTravels(p))

TimedSpec == TimedInit /\ [][TimedNext]_timedVars /\ TimedFairness

-----------------------------------------------------------------------------
TimersOK ==
    /\ argument \in Options
    /\ brdIn \in [AC -> 0 .. brditv]
    /\ acIn \in [AC -> 0 .. acmsgitv] /\ apIn \in [AP -> 0 .. apmsgitv]
    /\ young \subseteq net

\* A broadcast reaches the AP's next round and the answer the AC's next one before
\* the AC broadcasts again; a frame may take a second if nobody sleeps that long.
Round(itv) == IF itv = 0 THEN 1 ELSE itv
Slack == Round(apmsgitv) + Round(acmsgitv) < brditv

\* Then no REG of the AC's only AP comes late: as long as nothing has been restarted,
\* each one in flight answers the AC's latest broadcast, so the CHAP check of __ap_reg
\* refuses none (ac/process.c:116).
RegInTime ==
    Slack /\ crashes = 0 => \A m \in InFlight("AP_REG") : m.chap = random[m.to]

\* Then too the AP gets registered, once losses and restarts have stopped.
EventuallyRegistered == \A p \in AP : []<>(Slack => isreg[p])

\* What RegInTime rests on: where in its round a frame can be, as long as nothing has
\* been restarted, by the seconds since the broadcast it stems from.
Since(a) == brditv - brdIn[a]
ClockInv ==
    Slack /\ crashes = 0 =>
        /\ \A a \in AC : up[a]
        /\ \A m \in InFlight("AC_BRD") :
              /\ m.random = random[m.from]
              /\ IF m \in young THEN Since(m.from) = 0
                 ELSE apIn[m.to] + Since(m.from) <= Round(apmsgitv)
        /\ \A m \in InFlight("AP_REG") :
              /\ m.chap = random[m.to]
              /\ IF m \in young THEN Since(m.to) <= Round(apmsgitv)
                 ELSE acIn[m.to] + Since(m.to) <= Round(apmsgitv) + Round(acmsgitv)
=============================================================================
