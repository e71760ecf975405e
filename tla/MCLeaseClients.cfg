CONSTANTS
    comfyui = comfyui
    lora = lora
    llm = llm
    first = first
    second = second
    Jobs <- MCJobs
    Residents = {llm}
    Total = 3
    Vram <- MCVram
    Job = comfyui
    Prompts = {first, second}
    MaxFaults = 1
    Mishaps = {"crashed", "lapsed", "capped", "stopped", "unseen"}
    Run = lora
SPECIFICATION MCSpec
INVARIANTS
    TenantsFit
SYMMETRY Symmetry
CHECK_DEADLOCK FALSE
