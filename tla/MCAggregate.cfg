CONSTANTS
    o1 = o1
    s1 = s1
    s2 = s2
    s3 = s3
    i1 = i1
    i2 = i2
    i3 = i3
    p1 = p1
    p2 = p2
    p3 = p3
    Orders = {o1}
    SellerOrderIds = {s1, s2, s3}
    Items = {i1, i2, i3}
    Products = {p1, p2, p3}
    Keys = {}
    OrderOf <- MCOrderOf
    SellerOrderOf <- MCSellerOrderOf
    ProductOf <- MCProductOf
    QuantityOf <- MCQuantityOf
    UnitPriceOf <- MCUnitPriceOf
    CommissionRateOf <- MCCommissionRateOf
    Subtotal <- MCSubtotal
    InitialStock <- MCInitialStock
    Deletable = {}
    MaxAttempts = 2
    Troubled = {s1}
SPECIFICATION FulfilmentFairSpec
INVARIANTS OrderClaimsSupported
PROPERTIES SettledOrderIsFinal FulfilmentStarts
CHECK_DEADLOCK FALSE
