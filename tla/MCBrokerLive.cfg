SPECIFICATION FairBrokerSpec
CONSTANTS
    chat = chat
    voice = voice
    small = small
    large = large
    huge = huge
    Recovery = Recovery
    Jobs <- MCOneJob
    Residents <- MCResidents
    Vram <- MCOneVram
    Est <- MCOneEst
    Renders <- MCRenders
    Total = 3
    DefaultTtl = 1
    MaxTtl = 1
    HeartbeatTtl = 1
    Api = {a1}
    Loop = Loop
    Verb = Verb
    Nobody = Nobody
    Mishaps = {"write", "crash", "stray", "render"}
    MaxMishaps = 1
    MaxCalls = 2
PROPERTIES
    StrayStopped
    
    
    
