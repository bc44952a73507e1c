\* The driver framework: every call, in every order.
CONSTANTS
    d1 = d1
    d2 = d2
    d3 = d3
    d4 = d4
    d5 = d5
    NULL = NULL
    Driver <- MCDriver
    Name <- MCName
    NameOf <- MCNameOf
    HasOps <- MCHasOps
    MAX_DRIVERS = 3
SPECIFICATION DriverSpec
INVARIANTS ListIntact InitMatchesCleanup
