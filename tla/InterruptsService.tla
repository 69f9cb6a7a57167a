------------------------- MODULE InterruptsService -------------------------
(***************************************************************************)
(* What InterruptsDispatcher (vdma/channel/interrupts_dispatcher.hpp)      *)
(* promises to those who start and stop it: process_irq runs only for the  *)
(* channels group that was started last, and never after stop returned.    *)
(***************************************************************************)
CONSTANTS
    Groups,     \* channels groups
    None        \* no group

VARIABLES
    open,       \* the group between the start of it and the return of stop
    serving     \* the group process_irq runs for

serviceVars == <<open, serving>>

ServiceInit == open = None /\ serving = None

(* start *)
Open(g) == open = None /\ open' = g /\ UNCHANGED serving

(* process_irq is called, and returns. *)
Serve == open # None /\ serving = None /\ serving' = open /\ UNCHANGED open
Served == serving # None /\ serving' = None /\ UNCHANGED open

(* stop returns *)
Close == open # None /\ serving = None /\ open' = None /\ UNCHANGED serving

ServiceNext == (\E g \in Groups : Open(g)) \/ Serve \/ Served \/ Close

ServiceSpec == ServiceInit /\ [][ServiceNext]_serviceVars
=============================================================================
