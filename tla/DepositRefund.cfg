CONSTANTS
    Payments = {p1, p2}
    N = 2
    Rent = 2
    LateFee = 1
    Amounts = {3}
    MaxFees = 1
    MaxRetries = 1
    MaxWallet = 3
    MaxDeducted = 1
SPECIFICATION Spec
SYMMETRY PaymentSymmetry
CHECK_DEADLOCK FALSE
INVARIANTS
    DepositsLeaveWalletAlone
