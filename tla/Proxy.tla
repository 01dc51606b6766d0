------------------------------- MODULE Proxy --------------------------------
(***************************************************************************)
(* The local proxy sapling workers may be routed through                   *)
(* (runtimes/sapling-proxy.ts).  Every spawn of a worker first probes it   *)
(* and starts it if nothing answers; commands that do so side by side may  *)
(* start several, of which one gets the port.                              *)
(***************************************************************************)
EXTENDS Naturals, FiniteSets

CONSTANTS Commands,  \* commands that spawn a worker, one after the other each
          Polls,     \* bound: probes after a start (15 in the code)
          MaxFaults  \* bound: proxies that die, tokens that expire and strangers at the port

VARIABLES port,      \* who listens: nobody, a stranger, or the proxy a command started
          young,     \* commands whose proxy has not bound the port yet
          token,     \* whether the credentials hold a usable token
          step,      \* where a command stands
          polls,     \* probes it has left
          faults,    \* faults so far
          blamed     \* commands that saw a fault since their preflight began

proxyVars == <<port, young, token, step, polls, faults, blamed>>

Busy == {c \in Commands : step[c] \in {"probe", "poll"}}

ProxyInit ==
  /\ port = "nobody" /\ young = {} /\ token = TRUE
  /\ step = [c \in Commands |-> "idle"] /\ polls = [c \in Commands |-> 0]
  /\ faults = 0 /\ blamed = {}

\* resolveSaplingProxy says yes, the address is a loopback address: preflightDirectSpawn.
Begin(c) ==
  /\ step[c] \in {"idle", "spawned", "failed"} /\ step' = [step EXCEPT ![c] = "probe"]
  /\ blamed' = IF port = "stranger" \/ ~token THEN blamed \cup {c} ELSE blamed \ {c}
  /\ UNCHANGED <<port, young, token, polls, faults>>

\* probeProxyHealth.
Health ==
  CASE port = "nobody" -> "down"
    [] port = "stranger" -> "wrong-service"
    [] OTHER -> IF token THEN "ready" ELSE "no-token"

\* A ready proxy is used, a stranger or a proxy without a token is not helped by another.
FirstProbe(c) ==
  /\ step[c] = "probe"
  /\ IF Health = "down"
     THEN step' = [step EXCEPT ![c] = "poll"] /\ polls' = [polls EXCEPT ![c] = Polls] /\ young' = young \cup {c}
     ELSE /\ step' = [step EXCEPT ![c] = IF Health = "ready" THEN "spawned" ELSE "failed"]
          /\ UNCHANGED <<polls, young>>
  /\ UNCHANGED <<port, token, faults, blamed>>

\* Seeded bug for the runs: a command waits for its own proxy.
GoodForSelf(c) == Health = "ready" /\ port = c

\* Any proxy that is ready will do.
Good(c) == Health = "ready"

\* One probe of the loop.  Only a missing token ends it early.
Poll(c) ==
  /\ step[c] = "poll" /\ polls' = [polls EXCEPT ![c] = @ - 1]
  /\ step' = [step EXCEPT ![c] =
       IF Good(c) THEN "spawned" ELSE IF Health = "no-token" \/ polls[c] = 1 THEN "failed" ELSE @]
  /\ UNCHANGED <<port, young, token, faults, blamed>>

\* A new proxy binds the port in less than the time of the probes, or ends because the
\* port is taken.
Bind(c) ==
  /\ c \in young /\ young' = young \ {c}
  /\ port' = IF port = "nobody" THEN c ELSE port
  /\ UNCHANGED <<token, step, polls, faults, blamed>>

\* Time goes on for the probes only while some proxy is in time.
Probe(c) == Poll(c) /\ (polls[c] > 1 \/ young = {})

\* The proxy dies, its token expires, or a stranger takes the free port.
Fault ==
  /\ faults < MaxFaults /\ faults' = faults + 1 /\ blamed' = blamed \cup Busy
  /\ \/ port \in Commands /\ port' = "nobody" /\ UNCHANGED token
     \/ token /\ token' = FALSE /\ UNCHANGED port
     \/ port = "nobody" /\ port' = "stranger" /\ UNCHANGED token
  /\ UNCHANGED <<young, step, polls>>

\* The user refreshes the token, or stops the stranger.
Repair ==
  /\ \/ ~token /\ token' = TRUE /\ UNCHANGED port
     \/ port = "stranger" /\ port' = "nobody" /\ UNCHANGED token
  /\ UNCHANGED <<young, step, polls, faults, blamed>>

ProxyNext ==
  \/ \E c \in Commands : Begin(c) \/ FirstProbe(c) \/ Probe(c) \/ Bind(c)
  \/ Fault \/ Repair

-----------------------------------------------------------------------------
\* Commands that start the proxy side by side do not fail because of one another: a
\* preflight fails only if it met a fault (sapling-proxy.ts:290-345, sapling.ts:460-471).
NoneFailsAlone == \A c \in Commands : step[c] = "failed" => c \in blamed
=============================================================================
