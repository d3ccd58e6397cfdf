SPECIFICATION Spec
CONSTANTS
    usdc = usdc
    wbtc = wbtc
    eth = eth
    Assets = {usdc, wbtc, eth}
    Symbols = {"A", "B"}
    OriginAssets = {usdc, wbtc}
    e = e
    Addresses = {e}
    Gateways = {"g"}
    Txs = {"x", "y"}
    EndBlockerLimit = 1
    PollBound = 2
    Zero = Zero
    None = None
INVARIANTS
    LookupsAgree
    ConfirmedByDeployment
