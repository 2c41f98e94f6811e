--------------------------- MODULE KonduitPromise ---------------------------
(***************************************************************************)
(* What a channel promises its two parties, whatever evidence, datum and   *)
(* validity interval a transaction carries:                                *)
(*                                                                         *)
(*  - while it is open, only the provider takes from it, and all that it   *)
(*    took is worth no more than the cheques it had earned by then;        *)
(*  - a consumer that closes waits for the close period, and the provider  *)
(*    has that long to answer;                                             *)
(*  - an answer says what is held for cheques still locked; what is held   *)
(*    is taken, or given back, no faster than it stops being held;         *)
(*  - the rest goes back once nothing is waited for.                       *)
(*                                                                         *)
(* KonduitChannel and every channel of KonduitBatch implement it.  Of the  *)
(* Answer it promises nothing about what is taken: the script turns a sign *)
(* there (respond.ak:24), which the run channel_respond_sign shows.        *)
(***************************************************************************)
EXTENDS Integers

CONSTANTS
    ClosePeriod,  \* the time the provider has to answer
    MinAdaBuffer, \* left on top of what is held
    Worth(_)      \* lovelace of a set of cheques

VARIABLES
    now,     \* the clock
    phase,   \* "open", "closing", "answered", or how it ended
    funds,   \* lovelace in the channel
    taken,   \* lovelace the provider took out, net
    earned,  \* the cheques whose secrets the provider knows
    since,   \* when the channel was closed
    held,    \* lovelace held for locked cheques
    waits    \* the timeouts of those cheques

vars == <<now, phase, funds, taken, earned, since, held, waits>>

Init == phase = "open" /\ funds >= 0 /\ taken = 0 /\ earned = {} /\ held = 0 /\ waits = {}

\* Time passes; the provider learns secrets.
Time == now' > now /\ UNCHANGED <<phase, funds, taken, earned, since, held, waits>>
Earn == earned \subseteq earned' /\ UNCHANGED <<now, phase, funds, taken, since, held, waits>>

Takes == taken' = taken + funds - funds' /\ UNCHANGED <<now, earned>>
Gives == UNCHANGED <<now, earned, taken>>

Deposit == phase = "open" /\ phase' = "open" /\ funds' > funds /\ Gives /\ UNCHANGED <<since, held, waits>>
Withdraw ==
    /\ phase = "open" /\ phase' = "open"
    /\ Takes /\ taken' <= Worth(earned)
    /\ UNCHANGED <<since, held, waits>>
Close ==
    /\ phase = "open" /\ phase' = "closing"
    /\ funds' >= funds /\ since' = now
    /\ Gives /\ UNCHANGED <<held, waits>>
Answer == phase = "closing" /\ phase' = "answered" /\ Takes /\ UNCHANGED since

\* What is held is settled by its secrets, or dropped when it is out of time.
Settle ==
    /\ phase = "answered" /\ phase' = "answered"
    /\ Takes /\ funds - funds' <= held - held'
    /\ waits' \subseteq waits /\ UNCHANGED since
Drop ==
    /\ phase = "answered" /\ phase' = "answered"
    /\ Gives /\ funds' >= held' + MinAdaBuffer
    /\ waits' \subseteq waits /\ UNCHANGED since

Ends(how) == phase' = how /\ Gives /\ UNCHANGED since
Reclaim == phase = "closing" /\ now >= since + ClosePeriod /\ Ends("reclaimed")
Finish == phase = "answered" /\ (\A t \in waits : t <= now) /\ Ends("finished")
\* Both parties sign.
Agree == phase \in {"open", "closing", "answered"} /\ Ends("agreed")

Next ==
    \/ Time \/ Earn
    \/ Deposit \/ Withdraw \/ Close \/ Answer \/ Settle \/ Drop
    \/ Reclaim \/ Finish \/ Agree

Spec == Init /\ [][Next]_vars
=============================================================================
