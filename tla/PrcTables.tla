------------------------------ MODULE PrcTables ------------------------------
(***************************************************************************)
(* What the driver of the DFX controller promises its user: the controller *)
(* keeps, for each virtual socket, tables of named entries; a call that     *)
(* sets an entry gives the entry it names the value it names, and changes   *)
(* no other; a manager is given the very command and trigger of the call    *)
(* that sends it one; and the status that is printed is the manager's.      *)
(***************************************************************************)
CONSTANTS Vsm,          \* the virtual socket managers
          Field,        \* the names of the tables
          Row,          \* their rows
          Value(_),     \* the values that are given to the entries of a table
          Zero(_),      \* what a cleared entry of a table reads as
          Merged(_, _), \* an old value with a new one merged into it
          Command,      \* the commands, with their arguments
          Manager,      \* the states of a manager
          Shown(_)      \* what is to be printed of a manager in a state

VARIABLES table,
          order,        \* the last command each manager was given
          trigger,      \* the last trigger, and whether it is still pending
          manager,      \* the state of each manager
          printed,      \* what the driver prints of it
          call          \* the call of the last step, with its arguments

tvars == <<table, order, trigger, manager, printed, call>>

NoCall == [name |-> "none"]
NoOrder == [name |-> "none"]
NoTrigger == [id |-> 0, pending |-> FALSE]

TInit == /\ table = [entry \in Vsm \X Field \X Row |-> Zero(entry[2])]
         /\ order = [vsm \in Vsm |-> NoOrder]
         /\ trigger = [vsm \in Vsm |-> NoTrigger]
         /\ manager \in [Vsm -> Manager]
         /\ call = NoCall

\* XPrc_SetRmBsIndex "overwrites the entire BS Index register": the clearing
\* index is cleared.  XPrc_SetRmClearingBsIndex merges: the entry is what is
\* given only if it was clear, as it is after XPrc_SetRmBsIndex.
Written(field, other, old, value) ==
  CASE other = field /\ field = "ClearingBsIndex"     -> Merged(old, value)
    [] other = field /\ field # "ClearingBsIndex"     -> value
    [] other = "ClearingBsIndex" /\ field = "BsIndex" -> Zero(other)
    [] OTHER                                          -> old

TSet(vsm, field, row, value) ==
  /\ call' = [name |-> "set", vsm |-> vsm, field |-> field, row |-> row,
              value |-> value]
  /\ table' = [entry \in DOMAIN table |->
                 IF entry[1] = vsm /\ entry[3] = row
                   THEN Written(field, entry[2], table[entry], value)
                   ELSE table[entry]]
  /\ UNCHANGED <<order, trigger, manager>>

TSend(vsm, command) ==
  /\ call' = [name |-> "send", vsm |-> vsm, command |-> command]
  /\ order' = [order EXCEPT ![vsm] = command]
  /\ UNCHANGED <<table, trigger, manager>>

TTrigger(vsm, id) ==
  /\ call' = [name |-> "trigger", vsm |-> vsm, id |-> id]
  /\ trigger' = [trigger EXCEPT ![vsm] = [id |-> id, pending |-> TRUE]]
  /\ UNCHANGED <<table, order, manager>>

\* What happens without a call: a manager takes its trigger, or its state
\* changes.
TTake(vsm) == /\ call' = NoCall
              /\ trigger' = [trigger EXCEPT ![vsm].pending = FALSE]
              /\ UNCHANGED <<table, order, manager>>

TChange(vsm, state) == /\ call' = NoCall
                       /\ manager' = [manager EXCEPT ![vsm] = state]
                       /\ UNCHANGED <<table, order, trigger>>

TNext == \E vsm \in Vsm :
           \/ \E field \in Field, row \in Row :
                \E value \in Value(field) : TSet(vsm, field, row, value)
           \/ \E command \in Command : TSend(vsm, command)
           \/ \E id \in Row : TTrigger(vsm, id)
           \/ TTake(vsm)
           \/ \E state \in Manager : TChange(vsm, state)

Faithful == printed = [vsm \in Vsm |-> Shown(manager[vsm])]

TSpec == TInit /\ [][TNext]_tvars /\ []Faithful
==============================================================================
