SPECIFICATION FairSpec
CONSTANTS
    binance = binance
    bitstamp = bitstamp
    kraken = kraken
    cli = cli
    other = other
    Sources = {binance, bitstamp, kraken}
    Calls = {cli, other}
    Clients = {cli}
    Symbols = {"eth", "btc", "bad", "xrp"}
    Instruments <- MCInstruments
    Factories <- MCFactories
    NoCall = NoCall
    NoSymbol = NoSymbol
    Server = server
    ManagerRx = ManagerRx
    ServerRx = ServerRx
    Processes = {cli, server}
    Receivers = {cli, ManagerRx, ServerRx}
    ProcessOf <- MCProcessOf
    DefaultSymbol = "eth"
PROPERTIES
    CtrlCStopsServer
CHECK_DEADLOCK FALSE
