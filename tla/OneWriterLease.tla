--------------------------- MODULE OneWriterLease ---------------------------
(***************************************************************************)
(* What the Control Center promises about control: at most one browser is  *)
(* the writer; nobody becomes the writer while another one is, except by   *)
(* pressing "Take control"; and a writer is dropped only by its own        *)
(* release or after Patience heartbeat periods without a sign of life.     *)
(***************************************************************************)
EXTENDS Naturals
CONSTANTS Clients, None, Patience
VARIABLES writer,     \* who may change anything; None: nobody
          quiet,      \* heartbeat periods since the writer was last heard
          overrides   \* times "Take control" was pressed

abstractVars == <<writer, quiet, overrides>>

Start == writer = None /\ quiet = Patience /\ overrides = 0

Grant(c) == writer = None /\ writer' = c /\ quiet' = 0 /\ UNCHANGED overrides

Hear == writer # None /\ quiet' = 0 /\ UNCHANGED <<writer, overrides>>

Wait == /\ writer # None
        /\ quiet' = quiet + 1
        /\ writer' = IF quiet' < Patience THEN writer ELSE None
        /\ UNCHANGED overrides

Resign == writer # None /\ writer' = None /\ quiet' = Patience /\ UNCHANGED overrides

TakeOver(c) == writer' = c /\ quiet' = 0 /\ overrides' = overrides + 1

Step == \/ Hear \/ Wait \/ Resign
        \/ \E c \in Clients : Grant(c) \/ TakeOver(c)

OneWriter == Start /\ [][Step]_abstractVars
=============================================================================
