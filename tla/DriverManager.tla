--------------------------- MODULE DriverManager ---------------------------
(***************************************************************************)
(* The driver framework, kernel/drivers/driver.c: the list of registered   *)
(* drivers and the life cycle that calls their init and cleanup.           *)
(*                                                                         *)
(* A driver_t belongs to its driver and outlives its registration.  Its    *)
(* init may fail, and fail or succeed when tried again.                    *)
(***************************************************************************)
EXTENDS Integers, FiniteSets

CONSTANTS
    Driver,       \* the driver_t objects
    NULL,
    Name,         \* the names of drivers, none of them empty
    NameOf,       \* drv->name
    HasOps,       \* the drivers with init and cleanup operations
    MAX_DRIVERS

ASSUME DriverAssumption ==
    /\ IsFiniteSet(Driver) /\ NULL \notin Driver
    /\ NameOf \in [Driver -> Name]
    /\ HasOps \subseteq Driver
    /\ MAX_DRIVERS \in Nat

VARIABLES
    driver_list,
    driver_count,
    state,
    next,
    running       \* history: how often the init of each driver has
                  \* succeeded, less the calls of its cleanup

driver_vars == <<driver_list, driver_count, state, next, running>>

-----------------------------------------------------------------------------
(***************************************************************************)
(* The i-th driver of the list, as the loops of driver.c reach it.         *)
(***************************************************************************)
At(i) ==
    LET d[k \in Nat] ==
          IF k = 0 THEN driver_list
          ELSE LET p == d[k - 1] IN IF p = NULL THEN NULL ELSE next[p]
    IN  d[i]

Indices == 0 .. Cardinality(Driver) - 1

Listed == {At(i) : i \in Indices} \ {NULL}

(***************************************************************************)
(* i is where driver_find and driver_unregister stop for name.             *)
(***************************************************************************)
IsFound(name, i) ==
    /\ At(i) # NULL /\ NameOf[At(i)] = name
    /\ \A j \in 0 .. i - 1 : NameOf[At(j)] # name

driver_find(name) ==
    {At(i) : i \in {j \in Indices : IsFound(name, j)}}

DriverInit ==
    /\ driver_list = NULL /\ driver_count = 0
    /\ state = [d \in Driver |-> "UNLOADED"]
    /\ next = [d \in Driver |-> NULL]
    /\ running = [d \in Driver |-> 0]

(***************************************************************************)
(* Mutant of MayRegister: names are not looked up first.                   *)
(***************************************************************************)
MayRegisterAgain(drv) == driver_count < MAX_DRIVERS

MayRegister(drv) ==
    driver_count < MAX_DRIVERS /\ driver_find(NameOf[drv]) = {}

driver_register(drv) ==
    /\ MayRegister(drv)
    /\ state' = [state EXCEPT ![drv] = "LOADED"]
    /\ next' = [next EXCEPT ![drv] = driver_list]
    /\ driver_list' = drv
    /\ driver_count' = driver_count + 1
    /\ UNCHANGED running

(***************************************************************************)
(* Mutant of Cleanup: the operation is never called.                       *)
(***************************************************************************)
CleanupSkipped(drv) == running

(***************************************************************************)
(* ops->cleanup, called for an ACTIVE driver.                              *)
(***************************************************************************)
Cleanup(drv) ==
    IF state[drv] = "ACTIVE" /\ drv \in HasOps
    THEN [running EXCEPT ![drv] = @ - 1] ELSE running

driver_unregister(name) ==
    \E i \in Indices :
        LET drv == At(i)
        IN  /\ IsFound(name, i)
            /\ running' = Cleanup(drv)
            /\ IF i = 0
               THEN driver_list' = next[drv] /\ UNCHANGED next
               ELSE /\ next' = [next EXCEPT ![At(i - 1)] = next[drv]]
                    /\ UNCHANGED driver_list
            /\ state' = [state EXCEPT ![drv] = "UNLOADED"]
            /\ driver_count' = driver_count - 1

driver_load(name) ==
    \E drv \in driver_find(name) :
        /\ state[drv] # "ACTIVE"
        /\ \/ /\ state' = [state EXCEPT ![drv] = "ACTIVE"]
              /\ running' = IF drv \in HasOps
                            THEN [running EXCEPT ![drv] = @ + 1] ELSE running
           \/ /\ drv \in HasOps                 \* init returns an error
              /\ state' = [state EXCEPT ![drv] = "ERROR"]
              /\ UNCHANGED running
        /\ UNCHANGED <<driver_list, driver_count, next>>

driver_unload(name) ==
    \E drv \in driver_find(name) :
        /\ state[drv] = "ACTIVE"
        /\ running' = Cleanup(drv)
        /\ state' = [state EXCEPT ![drv] = "LOADED"]
        /\ UNCHANGED <<driver_list, driver_count, next>>

DriverNext ==
    \/ \E drv \in Driver : driver_register(drv)
    \/ \E name \in Name :
          driver_unregister(name) \/ driver_load(name) \/ driver_unload(name)

DriverSpec == DriverInit /\ [][DriverNext]_driver_vars

-----------------------------------------------------------------------------
(***************************************************************************)
(* Type invariant; the list never exceeds MAX_DRIVERS.                     *)
(***************************************************************************)
DriverTypeOK ==
    /\ driver_list \in Driver \cup {NULL}
    /\ driver_count \in 0 .. MAX_DRIVERS
    /\ state \in [Driver -> {"UNLOADED", "LOADED", "ACTIVE", "ERROR"}]
    /\ next \in [Driver -> Driver \cup {NULL}]
    /\ running \in [Driver -> Int]

(***************************************************************************)
(* The type invariant, and: the list of driver.c ends, holds driver_count  *)
(* drivers of different names, and exactly the ones that are not UNLOADED, *)
(* although driver_unregister leaves a stale `next` in the driver it       *)
(* removes and driver_register may take the same driver again.             *)
(***************************************************************************)
ListIntact ==
    /\ DriverTypeOK
    /\ At(Cardinality(Driver)) = NULL
    /\ Cardinality(Listed) = driver_count
    /\ Listed = {d \in Driver : state[d] # "UNLOADED"}
    /\ \A c, d \in Listed : NameOf[c] = NameOf[d] => c = d

(***************************************************************************)
(* Over every order of load, failed load, unload, unregister and register, *)
(* the calls of a driver's operations alternate: a driver has been         *)
(* initialised once more than cleaned up while it is ACTIVE, and as often  *)
(* otherwise.  No init comes on top of another, and no cleanup is missed   *)
(* or repeated.                                                            *)
(***************************************************************************)
InitMatchesCleanup ==
    \A d \in Driver :
        running[d] = IF d \in HasOps /\ state[d] = "ACTIVE" THEN 1 ELSE 0
=============================================================================
