SPECIFICATION WakeSpec
CONSTANTS
    Names = {"web"}
    NoService = "none"
    Configured = {"web"}
    Composed = {}
    MaxContainers = 2
    Edits = {}
    DockerFails = FALSE
    Restarts = TRUE
    NoSample = NoSample
    Window = 5
    Interference = {"client", "docker"}
    Loads <- CpuLowOrBoth
PROPERTIES
    Served
    IdleSleeps
