------------------------------- MODULE MCHost -------------------------------
(***************************************************************************)
(* The parts of a running host that wait, for TLC: the tasks and their      *)
(* drain, a schedule source, the log pipeline, an outbound HTTP exchange    *)
(* and a chain request.  The five share no state, so one is under way in    *)
(* each behaviour and the others rest.                                      *)
(***************************************************************************)
EXTENDS TaskManager, Schedule, RunLogs, HttpExchange, ChainRead

VARIABLE part

-----------------------------------------------------------------------------
(* Records of the logging interface, and what a guest writes to its streams.   *)
Rec(l,t,m,f,fs) == [level |-> l, target |-> t, msg |-> m, file |-> f, fields |-> fs]
L_Records == { Rec(3, 0, 1, 0, <<>>), Rec(1, 4, 5, 2, <<3, 1>>), Rec(2, 3, 0, 6, <<>>) }
L_Chunks == { <<3>>, <<1, 0>>, <<0, 2, 0>> }

-----------------------------------------------------------------------------
(* A name under the author's suffix, one the operator names, a literal; and    *)
(* addresses that are public, prohibited, prohibited but permitted.            *)
Ent(k,l) == [kind |-> k, labels |-> l]
H_Names == { <<"com","acme">>, <<"com","acme","api">> }
H_Literals == [h \in {<<"v6one">>} |-> <<6, 1>>]
H_Timeouts == {-1, 1}
H_Author == { Ent("suffix", <<"com","acme">>), Ent("exact", <<"v6one">>) }
H_Operator == { {}, {{}}, {{Ent("exact", <<"com", "acme","api">>)}} }
H_Addresses == { <<4,1>>, <<4,2>>, <<6,9>> }
H_Mapped == 5
H_Prohibited == { <<4,1>>, <<6,9>> }
H_Permitted == { <<6,9>> }
H_Denied == { <<6,2>> }

-----------------------------------------------------------------------------
R_Tracked == <<"a1", "a2">>

-----------------------------------------------------------------------------
(* A part that rests: nothing is asked of it, and nothing in it is due.        *)
ScheduleRests ==
  /\ wall = MaxWall /\ timer = [at |-> "gone", due |-> 0, left |-> 0]
  /\ slot = <<>> /\ open = FALSE /\ ticks = [last |-> -1, first |-> 0]

HostInit ==
  /\ part \in {"tasks", "schedule", "logs", "http", "read"}
  /\ IF part = "schedule" THEN ScheduleInit ELSE ScheduleRests
  /\ TaskInit /\ LogsInit /\ HttpInit /\ ReadInit

HostNext ==
  /\ \/ part = "tasks" /\ TaskNext /\ UNCHANGED <<scheduleVars, logsVars, httpVars, readVars>>
     \/ part = "schedule" /\ ScheduleNext /\ UNCHANGED <<taskVars, logsVars, httpVars, readVars>>
     \/ part = "logs" /\ LogsNext /\ UNCHANGED <<taskVars, scheduleVars, httpVars, readVars>>
     \/ part = "http" /\ HttpNext /\ UNCHANGED <<taskVars, scheduleVars, logsVars, readVars>>
     \/ part = "read" /\ ReadNext /\ UNCHANGED <<taskVars, scheduleVars, logsVars, httpVars>>
  /\ UNCHANGED part

HostSpec ==
  /\ HostInit
  /\ [][HostNext]_<<part, taskVars, scheduleVars, logsVars, httpVars, readVars>>
  /\ TaskFairness /\ ScheduleFairness /\ HttpFairness /\ ReadFairness

\* Every part keeps its own invariant: task counts and kinds, the one-tick
\* slot, the rings and the byte accounts of the log pipeline, the body given
\* out against its cap, and what may be on the wire to a node.
HostTypeOK == TaskTypeOK /\ ScheduleTypeOK /\ LogsTypeOK /\ HttpTypeOK /\ ReadTypeOK
=============================================================================
