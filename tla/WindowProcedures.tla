-------------------------- MODULE WindowProcedures --------------------------
(***************************************************************************)
(* What Windows promises a program about window procedures: every window   *)
(* has a procedure of its own, a new one has that of its class, replacing  *)
(* it affects that window only and returns the old one, and messages run   *)
(* the current one.  A promise may be dropped for a whole class, for ever. *)
(***************************************************************************)
CONSTANTS Window, Class, Proc,
          Nil,           \* no procedure, no class, nothing observed
          BuiltIn        \* class -> its procedure, Nil for classes to be registered

VARIABLES proc,      \* window -> its procedure, Nil for no (promised) window
          of,        \* window -> its class
          default,   \* class -> the procedure of its new windows
          seen,      \* what the program last observed: class, window or Nil, procedure
          void       \* classes nothing is promised for

procedureVars == <<proc, of, default, seen, void>>

ProceduresInit ==
    /\ proc = [w \in Window |-> Nil]
    /\ of = [w \in Window |-> Nil]
    /\ default = BuiltIn
    /\ seen = Nil
    /\ void = {}

RegisterClass(c, p) ==
    /\ c \notin void
    /\ default[c] = Nil
    /\ default' = [default EXCEPT ![c] = p]
    /\ UNCHANGED <<proc, of, seen, void>>

CreateWindow(w, c) ==
    /\ c \notin void
    /\ of[w] = Nil
    /\ default[c] # Nil
    /\ of' = [of EXCEPT ![w] = c]
    /\ proc' = [proc EXCEPT ![w] = default[c]]
    /\ UNCHANGED <<default, seen, void>>

DestroyWindow(w) ==
    /\ of[w] # Nil
    /\ of' = [of EXCEPT ![w] = Nil]
    /\ proc' = [proc EXCEPT ![w] = Nil]
    /\ UNCHANGED <<default, seen, void>>

\* SetWindowLong(w, GWL_WNDPROC, p)
Replace(w, p) ==
    /\ of[w] # Nil
    /\ seen' = <<of[w], w, proc[w]>>
    /\ proc' = [proc EXCEPT ![w] = p]
    /\ UNCHANGED <<of, default, void>>

\* GetWindowLong(w, GWL_WNDPROC) returns, or a message for w runs, its procedure.
Observe(w) ==
    /\ of[w] # Nil
    /\ seen' = <<of[w], w, proc[w]>>
    /\ UNCHANGED <<proc, of, default, void>>

\* GetClassInfo(c) and GetClassLong(c, GCL_WNDPROC)
ObserveClass(c) ==
    /\ c \notin void
    /\ seen' = <<c, Nil, default[c]>>
    /\ UNCHANGED <<proc, of, default, void>>

\* The promise for class c is dropped ...
Drop(c) ==
    /\ void' = void \cup {c}
    /\ of' = [w \in Window |-> IF of[w] = c THEN Nil ELSE of[w]]
    /\ proc' = [w \in Window |-> IF of[w] = c THEN Nil ELSE proc[w]]
    /\ default' = [default EXCEPT ![c] = Nil]
    /\ seen' \in {seen, Nil}

\* ... and what happens to such classes is no business of this module.
Elsewhere ==
    /\ seen' = Nil
    /\ UNCHANGED <<proc, of, default, void>>

ProceduresNext ==
    \/ \E c \in Class, p \in Proc : RegisterClass(c, p)
    \/ \E w \in Window, c \in Class : CreateWindow(w, c)
    \/ \E w \in Window : DestroyWindow(w) \/ Observe(w)
    \/ \E w \in Window, p \in Proc : Replace(w, p)
    \/ \E c \in Class : ObserveClass(c) \/ Drop(c)
    \/ Elsewhere

ProceduresSpec == ProceduresInit /\ [][ProceduresNext]_procedureVars
=============================================================================
