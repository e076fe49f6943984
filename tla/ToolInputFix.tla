----------------------------- MODULE ToolInputFix -----------------------------
(***************************************************************************)
(* middleware/tool_input_fix.py: one ToolInputFixMiddleware, shared by the *)
(* threads of every run of the main agent. It repairs the arguments of a   *)
(* tool call, has the schema validate them, and lets the tool run or       *)
(* answers with an error; a tool that failed MaxRetries times in a row is  *)
(* passed on unrepaired. auto_coerce and strip_extra are on, their         *)
(* defaults, as fault_agent.py leaves them.                                *)
(*                                                                         *)
(* An argument is reduced to its type and to the types that its text, or   *)
(* its number, can be converted to. Counts that are only logged and the    *)
(* wording of the errors are left out.                                     *)
(***************************************************************************)
EXTENDS Integers, FiniteSets, Functions

CONSTANTS
    Threads,      \* threads that make tool calls
    Tools,        \* tools with a schema; the others pass straight through
    Schema,       \* the schema's fields: what a field accepts, the type that
                  \*   _get_field_type finds for it, whether it must be given
    Inputs,       \* the arguments a model provider may send
    MaxRetries    \* max_retries

Types == {"int", "float", "bool", "str", "list", "dict", "null"}
\* Only text and numbers are ever converted, text also to a dictionary.
Value ==
    {v \in [type : Types, reads : SUBSET {"int", "float", "bool", "dict"}] :
        v.reads # {} => v.type \in {"str", "int", "float"}}
\* "text" is a string that holds the JSON of a dictionary, "other" any other
\* value that is not a dictionary.
Shapes == {"dict", "text", "other"}

ASSUME FixAssumption ==
    /\ IsFiniteSet(Threads)
    /\ \A f \in DOMAIN Schema :
          /\ Schema[f] \in [type : Types, target : Types, required : BOOLEAN, nullable : BOOLEAN]
          /\ Schema[f].target = Schema[f].type \/ Schema[f].type \in {"list", "dict"}
    /\ \A a \in Inputs :
          a.shape \in Shapes /\ \A f \in DOMAIN a.fields : a.fields[f] \in Value
    /\ MaxRetries \in Nat \ {0}

VARIABLES
    errors,       \* _error_counts
    stage,        \* where each thread stands in wrap_tool_call
    called,       \* the tool it calls
    args          \* tool_call["args"]

fixVars == <<errors, stage, called, args>>

Stages == {"start", "read", "repair", "run", "unchecked"}
NoArgs == [x \in {} |-> x]

FixTypeOK ==
    /\ errors \in [Tools -> Nat]
    /\ stage \in [Threads -> Stages]
    /\ called \in [Threads -> Tools]
    /\ \A t \in Threads : args[t].shape \in Shapes

FixInit ==
    /\ errors = [n \in Tools |-> 0]
    /\ stage = [t \in Threads |-> "start"]
    /\ called \in [Threads -> Tools]
    /\ args = [t \in Threads |-> [shape |-> "dict", fields |-> NoArgs]]

------------------------------------------------------------------------------
(* Repair and validation                                                    *)

\* isinstance: a bool is an int.
Instance(v, type) == v.type = type \/ (v.type = "bool" /\ type = "int")

\* The conversions of _coerce_value: any string splits into a list, any int
\* is a bool; the rest depends on the value. A null is never converted, and
\* a value that cannot be is kept.
Converts(v, type) ==
    \/ type \in v.reads
    \/ v.type = "str" /\ type = "list"
    \/ v.type = "int" /\ type = "bool"

CoerceValue(v, type) ==
    IF v.type # "null" /\ ~ Instance(v, type) /\ Converts(v, type)
    THEN [type |-> type, reads |-> {}]
    ELSE v

StripExtra(d) == Restrict(d, DOMAIN d \cap DOMAIN Schema)
Coerce(d) == [f \in DOMAIN d |-> CoerceValue(d[f], Schema[f].target)]

\* As DropNulls, but of required fields too.
DropAllNulls(d) == Restrict(d, {f \in DOMAIN d : d[f].type # "null"})

DropNulls(d) == Restrict(d, {f \in DOMAIN d : d[f].type # "null" \/ Schema[f].required})

\* _fix_args; what is neither a dictionary nor the JSON of one becomes {}.
FixArgs(a) ==
    IF a.shape = "other" THEN NoArgs ELSE DropNulls(Coerce(StripExtra(a.fields)))

\* What the schema's model_validate accepts: it converts too, but not text to
\* a dictionary, and it ignores fields that it does not know.
Accepts(field, v) ==
    \/ Instance(v, field.type)
    \/ field.type \in v.reads \ {"dict"}
    \/ v.type = "null" /\ field.nullable

Valid(d) ==
    \A f \in DOMAIN Schema :
        IF f \in DOMAIN d THEN Accepts(Schema[f], d[f]) ELSE ~ Schema[f].required

------------------------------------------------------------------------------
(* A call                                                                   *)

GoOn(t, label) == stage' = [stage EXCEPT ![t] = label]
CountError(n) == errors' = [errors EXCEPT ![n] = @ + 1]

\* A tool call arrives; the thread is about to look up the error count.
BeginCall(t) ==
    /\ stage[t] = "start"
    /\ GoOn(t, "read")
    /\ \E n \in Tools, a \in Inputs :
          /\ called' = [called EXCEPT ![t] = n]
          /\ args' = [args EXCEPT ![t] = a]
    /\ UNCHANGED errors

\* As ReadCount, but one error later.
ReadCountLate(t) ==
    /\ stage[t] = "read"
    /\ GoOn(t, IF errors[called[t]] > MaxRetries THEN "unchecked" ELSE "repair")
    /\ UNCHANGED <<errors, called, args>>

\* The count is read under the lock, and acted on after it.
ReadCount(t) ==
    /\ stage[t] = "read"
    /\ GoOn(t, IF errors[called[t]] >= MaxRetries THEN "unchecked" ELSE "repair")
    /\ UNCHANGED <<errors, called, args>>

\* The arguments are repaired, stored if a fix was applied, and validated: an
\* error is counted and answered, or the count is reset before the tool runs.
\* A string that needed no fix but its parsing stays a string.
RepairAndValidate(t) ==
    /\ stage[t] = "repair"
    /\ LET fixed == FixArgs(args[t])
           applied == args[t].shape # "other" /\ fixed # args[t].fields
       IN  /\ args' = IF applied
                      THEN [args EXCEPT ![t] = [shape |-> "dict", fields |-> fixed]]
                      ELSE args
           /\ IF Valid(fixed)
              THEN errors' = [errors EXCEPT ![called[t]] = 0] /\ GoOn(t, "run")
              ELSE CountError(called[t]) /\ GoOn(t, "start")
    /\ UNCHANGED called

\* The tool returns, or raises something that is passed on, or raises the
\* TypeError or ValueError that counts as one more error.
Finish(t) ==
    /\ stage[t] = "run"
    /\ GoOn(t, "start")
    /\ UNCHANGED errors \/ CountError(called[t])
    /\ UNCHANGED <<called, args>>

\* A call that was passed on unrepaired: nothing it does is counted.
FinishUnchecked(t) ==
    /\ stage[t] = "unchecked"
    /\ GoOn(t, "start")
    /\ UNCHANGED <<errors, called, args>>

\* before_agent of any run forgets the errors of all.
NewRun ==
    /\ errors' = [n \in Tools |-> 0]
    /\ UNCHANGED <<stage, called, args>>

FixNext ==
    \/ \E t \in Threads :
          BeginCall(t) \/ ReadCount(t) \/ RepairAndValidate(t) \/ Finish(t) \/ FinishUnchecked(t)
    \/ NewRun

FixSpec == FixInit /\ [][FixNext]_fixVars

------------------------------------------------------------------------------
(* Properties                                                               *)

\* The loop of wrong arguments is cut: however the threads overlap between
\* the reading of a count and the error that follows, the count passes the
\* limit by at most one error for each other thread.
ErrorsBounded ==
    \A n \in Tools : errors[n] < MaxRetries + Cardinality(Threads)

\* The repair does no harm: it never turns arguments that the schema accepts
\* into arguments it rejects, and there is nothing left for it to do twice.
RepairDoesNoHarm ==
    \A t \in Threads :
        stage[t] = "repair" /\ args[t].shape = "dict" =>
            LET fixed == FixArgs(args[t])
            IN  /\ Valid(args[t].fields) => Valid(fixed)
                /\ FixArgs([shape |-> "dict", fields |-> fixed]) = fixed

==============================================================================
