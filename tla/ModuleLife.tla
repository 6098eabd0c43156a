----------------------------- MODULE ModuleLife -----------------------------
(***************************************************************************)
(* What the loader promises about modules, whatever imports, entry points, *)
(* threads and faults do: a name is loaded by one thread at a time, and by *)
(* none while another thread loads anything; its entry point runs when     *)
(* everything it needs is there; every load that begins ends in success or *)
(* failure; and modules are closed only when nobody loads.                 *)
(***************************************************************************)
CONSTANTS Thread,
          File,     \* names of modules
          Needs     \* File -> the names that must be there before it runs

VARIABLES life,     \* File -> what has become of the module of that name
          busy,     \* thread -> the names it is loading, one load inside the other
          over      \* the process has ended

lifeVars == <<life, busy, over>>

LifeInit ==
    /\ life = [f \in File |-> "absent"]
    /\ busy = [t \in Thread |-> {}]
    /\ over = FALSE

\* t begins to load f: nobody has, and no other thread is loading.
Begin(t, f) ==
    /\ life[f] = "absent"
    /\ \A u \in Thread : u # t => busy[u] = {}
    /\ life' = [life EXCEPT ![f] = "new"]
    /\ busy' = [busy EXCEPT ![t] = @ \cup {f}]

\* The entry point of f is called: what f needs is there, unless it is being loaded
\* further out (it needs f in turn).
Attach(t, f) ==
    /\ life[f] = "new"
    /\ \A g \in Needs[f] : life[g] \in {"loaded", "failed"} \/ g \in busy[t]
    /\ life' = [life EXCEPT ![f] = "attached"]
    /\ UNCHANGED busy

\* It has returned.
Succeed(t, f) ==
    /\ life[f] = "attached"
    /\ life' = [life EXCEPT ![f] = "loaded"]
    /\ busy' = [busy EXCEPT ![t] = @ \ {f}]

\* Loads F of t fail together: a fault may end several at once.
Fail(t, F) ==
    /\ F # {}
    /\ life' = [f \in File |-> IF f \in F THEN "failed" ELSE life[f]]
    /\ busy' = [busy EXCEPT ![t] = @ \ F]

\* The module is closed and the name may be loaded again.
Close(f) ==
    /\ \A t \in Thread : busy[t] = {}
    /\ life[f] \in {"loaded", "failed"}
    /\ life' = [life EXCEPT ![f] = "absent"]
    /\ UNCHANGED busy

\* The process ends and with it whatever was being loaded.
End ==
    /\ over' = TRUE
    /\ busy' = [t \in Thread |-> {}]
    /\ UNCHANGED life

LifeNext ==
    /\ ~over
    /\ \/ /\ UNCHANGED over
          /\ \/ \E t \in Thread, f \in File : Begin(t, f)
             \/ \E t \in Thread : \E f \in busy[t] : Attach(t, f) \/ Succeed(t, f)
             \/ \E t \in Thread : \E F \in SUBSET busy[t] : Fail(t, F)
             \/ \E f \in File : Close(f)
       \/ End

LifeSpec == LifeInit /\ [][LifeNext]_lifeVars
=============================================================================
