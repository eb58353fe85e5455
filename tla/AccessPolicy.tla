----------------------------- MODULE AccessPolicy -----------------------------
(***************************************************************************)
(* What the remote boundary promises about sessions and about who may have *)
(* what done.  A session belongs to the identity that opened it and ends   *)
(* when it was idle too long, when its end was asked for, or when the      *)
(* process that kept it stops, and never comes back.  A grant is given on  *)
(* a live session and a scope, or to an operator, for one thing to be done *)
(* for the grantee's tenant; nothing is done without one.  A run is driven *)
(* once an operator of its tenant released it; where runs are driven in    *)
(* the background, also while its record does not say that it is held.     *)
(***************************************************************************)
EXTENDS Naturals

CONSTANTS Sids, Conns, Runs, Identities, Tenants, Places, IdleTime

VARIABLES now, serving, offered, background, endAsked, session, grant, run, held, memory

vars == <<now, serving, offered, background, endAsked, session, grant, run, held, memory>>

NoGrant == [right |-> "none"]

\* Which of the scopes a right takes.
Needs == [run |-> {"Squad.Run"}, federate |-> {"Squad.Federate"}, poll |-> {"Squad.Run"},
          release |-> {"Squad.Operate"}, write |-> {"Squad.MemoryWrite"},
          read |-> {"Squad.Memory"}, render |-> {"Squad.Render"},
          advise |-> {"Squad.Research", "Squad.Review", "Squad.Plan", "Squad.Architect",
                      "Squad.Business", "Squad.Backlog"}]

Init == /\ now = 0 /\ serving = FALSE /\ offered \subseteq DOMAIN Needs /\ endAsked = {}
        /\ background \in BOOLEAN
        /\ session = [s \in Sids |-> [state |-> "unused"]]
        /\ grant = [c \in Conns |-> NoGrant]
        /\ run = [r \in Runs |-> [status |-> "none"]] /\ held = {}
        /\ memory = [t \in Tenants |-> {}]

Live(s) == session[s].state = "live"
Over == [state |-> "over"]

\* The operator starts the process; time passes; clients ask for the end of sessions.
Environment ==
    /\ serving' \in BOOLEAN /\ now' >= now /\ endAsked' \subseteq Sids
    /\ session' = [s \in Sids |-> IF serving /\ ~serving' /\ Live(s) THEN Over ELSE session[s]]
    /\ grant' = [c \in Conns |-> IF serving' THEN grant[c] ELSE NoGrant]
    /\ UNCHANGED <<offered, background, run, held, memory>>

Open(s, who) ==
    /\ session[s].state = "unused"
    /\ session' = [session EXCEPT ![s] = [state |-> "live", owner |-> who,
                                           until |-> now + IdleTime]]
    /\ UNCHANGED <<grant, run, held, memory>>

\* Too late, or asked for.
End(s) ==
    /\ Live(s) /\ (now > session[s].until \/ s \in endAsked)
    /\ session' = [session EXCEPT ![s] = Over]
    /\ UNCHANGED <<grant, run, held, memory>>

\* A call on a live session of the caller's keeps it and may give a grant.
Use(s, who, scopes, c, right) ==
    /\ Live(s) /\ session[s].owner = who /\ now <= session[s].until
    /\ session' = [session EXCEPT ![s].until = now + IdleTime]
    /\ \/ grant' = grant
       \/ /\ right \in offered /\ right # "release" /\ scopes \cap Needs[right] # {}
          /\ grant' = [grant EXCEPT ![c] = [right |-> right, tenant |-> who.tenant]]
    /\ UNCHANGED <<run, held, memory>>

\* An operator needs no session.
Operate(who, scopes, c) ==
    /\ "release" \in offered /\ scopes \cap Needs["release"] # {}
    /\ grant' = [grant EXCEPT ![c] = [right |-> "release", tenant |-> who.tenant]]
    /\ UNCHANGED <<session, run, held, memory>>

Granted(c, rights, tenant) ==
    grant[c].right \in rights /\ grant[c].tenant = tenant
Spend(c) == grant' = [grant EXCEPT ![c] = NoGrant] /\ UNCHANGED session

Start(c, r, t) ==
    /\ Granted(c, {"run", "federate"}, t) /\ run[r].status = "none"
    /\ run' = [run EXCEPT ![r] = [status |-> "waiting", tenant |-> t]]
    /\ Spend(c) /\ UNCHANGED <<held, memory>>

Hold(r) == held' = held \cup {r} /\ UNCHANGED <<session, grant, run, memory>>

Release(c, r) ==
    /\ run[r].status = "waiting" /\ Granted(c, {"release"}, run[r].tenant)
    /\ run' = [run EXCEPT ![r].status = "released"]
    /\ Spend(c) /\ UNCHANGED <<held, memory>>

Driven(r) == run' = [run EXCEPT ![r].status = "driven"] /\ UNCHANGED <<held, memory>>

\* A poll drives a released run of its own tenant, and nothing else.
DriveOnPoll(c, r) ==
    /\ ~background /\ run[r].status = "released"
    /\ Granted(c, {"poll"}, run[r].tenant)
    /\ Driven(r) /\ Spend(c)

DriveInBackground(r) ==
    /\ background
    /\ run[r].status = "released" \/ (run[r].status = "waiting" /\ r \notin held)
    /\ Driven(r) /\ UNCHANGED <<session, grant>>

Write(c, t, p) ==
    /\ Granted(c, {"write"}, t)
    /\ memory' = [memory EXCEPT ![t] = @ \cup {p}]
    /\ Spend(c) /\ UNCHANGED <<run, held>>

Drop(c) == grant[c] # NoGrant /\ Spend(c) /\ UNCHANGED <<run, held, memory>>

SessionStep ==
    \/ \E s \in {x \in Sids : Live(x)} :
          \/ End(s)
          \/ \E i \in {x \in Identities : x.who = session[s].owner} :
                \E c \in Conns, right \in DOMAIN Needs : Use(s, i.who, i.scopes, c, right)
    \/ \E s \in Sids : \E i \in Identities : Open(s, i.who)

GrantStep ==
    \E c \in {x \in Conns : grant[x] # NoGrant} :
        \/ Drop(c)
        \/ \E r \in Runs : Release(c, r) \/ Start(c, r, grant[c].tenant) \/ DriveOnPoll(c, r)
        \/ \E p \in Places : Write(c, grant[c].tenant, p)

Act ==
    \/ SessionStep \/ GrantStep
    \/ \E c \in Conns, i \in Identities : Operate(i.who, i.scopes, c)
    \/ \E r \in Runs : Hold(r) \/ DriveInBackground(r)

Next == \/ Environment
        \/ Act /\ UNCHANGED <<now, serving, offered, background>> /\ endAsked' \subseteq Sids

Spec == Init /\ [][Next]_vars
===============================================================================
