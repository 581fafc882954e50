----------------------------- MODULE TimerModule -----------------------------
(***************************************************************************)
(* Homework 3, kernel_module.c: a kernel timer that arms itself again in   *)
(* its callback, and a module whose exit deletes the timer without waiting *)
(* for a callback that runs on another processor.                          *)
(***************************************************************************)

VARIABLES
    k_module,       \* the module: not loaded, loaded, or unloaded
    k_armed,        \* the timer is pending
    k_callback,     \* where callback_timer is
    k_overlap       \* del_timer was called while callback_timer ran

timerVars == <<k_module, k_armed, k_callback, k_overlap>>

TimerTypeOK ==
    /\ k_module \in {"out", "in", "unloaded"}
    /\ k_armed \in BOOLEAN
    /\ k_callback \in {"idle", "entered", "armed"}
    /\ k_overlap \in BOOLEAN

TimerInit ==
    /\ k_module = "out"
    /\ k_armed = FALSE
    /\ k_callback = "idle"
    /\ k_overlap = FALSE

init_mytimer ==
    /\ k_module = "out"
    /\ k_module' = "in"
    /\ k_armed' = TRUE
    /\ UNCHANGED <<k_callback, k_overlap>>

(* The timer expires: it is no longer pending when its callback starts. *)
Expires ==
    /\ k_armed /\ k_callback = "idle"
    /\ k_armed' = FALSE
    /\ k_callback' = "entered"
    /\ UNCHANGED <<k_module, k_overlap>>

(* mod_timer, and the count. *)
callback_arms ==
    /\ k_callback = "entered"
    /\ k_armed' = TRUE
    /\ k_callback' = "armed"
    /\ UNCHANGED <<k_module, k_overlap>>

callback_returns ==
    /\ k_callback = "armed"
    /\ k_callback' = "idle"
    /\ UNCHANGED <<k_module, k_armed, k_overlap>>

(* Mutated: the timer is not deleted. *)
cleanup_timer_forgets ==
    /\ k_module = "in"
    /\ k_module' = "unloaded"
    /\ k_overlap' = (k_callback # "idle")
    /\ UNCHANGED <<k_armed, k_callback>>

(* del_timer disarms the timer and does not wait; the module is taken away.    *)
cleanup_timer ==
    /\ k_module = "in"
    /\ k_module' = "unloaded"
    /\ k_armed' = FALSE
    /\ k_overlap' = (k_callback # "idle")
    /\ UNCHANGED k_callback

Callback == callback_arms \/ callback_returns
TimerNext == init_mytimer \/ Expires \/ Callback \/ cleanup_timer
=============================================================================
