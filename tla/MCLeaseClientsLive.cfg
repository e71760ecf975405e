CONSTANTS
    comfyui = comfyui
    lora = lora
    llm = llm
    first = first
    second = second
    Jobs <- MCJobs
    Residents = {llm}
    Total = 3
    Vram <- MCVram
    Job = comfyui
    Prompts = {first}
    MaxFaults = 1
    Mishaps = {"crashed", "wedged"}
    Run = lora
SPECIFICATION MCSpec
PROPERTIES
    
    WorkIsAskedFor
    CardGoesBack
CHECK_DEADLOCK FALSE
