CONSTANTS
    alice = alice
    bob = bob
    lamp = lamp
    vase = vase
    k1 = k1
    k2 = k2
    r1 = r1
    r2 = r2
    r3 = r3
    Customers = {alice, bob}
    Products = {lamp, vase}
    Keys = {k1, k2}
    Requests = {r1, r2, r3}
    CustomerOf <- MCCustomerOf
    KeysOf <- MCKeysOf
    InitialStock <- MCInitialStock
    InitialCart <- MCInitialCart
    LockOrder <- MCLockOrder
    MaxQuantity = 1
    Shopping = {alice}
    Editable = {vase}
SPECIFICATION FairSpec
CHECK_DEADLOCK FALSE
INVARIANTS
    AnswersAgree
    NoCyclicWait
PROPERTIES
    PurchasesOnce
    RequestsAnswered
