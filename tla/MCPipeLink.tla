------------------------------ MODULE MCPipeLink ------------------------------
(* Small instances of PipeLink: bytes of four bits, fields of one byte.     *)
EXTENDS PipeLink

Tag == <<14>>
Widths == [status |-> 1, ip |-> 0, port |-> 0, clientID |-> 1, fileSize |-> 1,
           sentSize |-> 1, timeStamp |-> 0]

Budget(adds, asks, sends, clientEnds, serverEnds, cuts) ==
  [adds |-> adds, asks |-> asks, sends |-> sends, clientEnds |-> clientEnds,
   serverEnds |-> serverEnds, cuts |-> cuts]

(* An offer accepted, refused or not answered, the server restarting or a  *)
(* read cutting a write meanwhile; offers of both; a file sent before and  *)
(* after the client restarts, which gets everything twice then; both       *)
(* programs restarting with a message cut.                                 *)
SmallBudgets ==
  {Budget(0, 1, 0, 0, 1, 0), Budget(0, 1, 0, 0, 0, 1), Budget(0, 1, 1, 0, 0, 0),
   Budget(0, 0, 1, 1, 0, 0), Budget(0, 0, 0, 1, 1, 1), Budget(0, 0, 1, 0, 0, 1),
   Budget(1, 0, 0, 0, 0, 1)}

(* One read is cut, nothing else happens.                                  *)
CutBudget == {Budget(1, 0, 0, 0, 0, 1)}
================================================================================
