CONSTANTS
    o1 = o1
    o2 = o2
    s1 = s1
    s2 = s2
    i1 = i1
    i2 = i2
    i3 = i3
    p1 = p1
    p2 = p2
    k1 = k1
    k2 = k2
    k3 = k3
    Orders = {o1, o2}
    SellerOrderIds = {s1, s2}
    Items = {i1, i2, i3}
    Products = {p1, p2}
    Keys = {k1, k2, k3}
    OrderOf <- MCOrderOf
    SellerOrderOf <- MCSellerOrderOf
    ProductOf <- MCProductOf
    QuantityOf <- MCQuantityOf
    UnitPriceOf <- MCUnitPriceOf
    CommissionRateOf <- MCCommissionRateOf
    Subtotal <- MCSubtotal
    InitialStock <- MCInitialStock
    Deletable = {p1, p2}
SPECIFICATION Spec
INVARIANT LedgerReconciles
CHECK_DEADLOCK FALSE
