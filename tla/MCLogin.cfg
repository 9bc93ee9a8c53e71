SPECIFICATION Spec
CONSTANTS
    loopback = loopback
    tailscale = tailscale
    Listeners <- MCListeners
    Loopback = loopback
    MaxFlows = 2
    MaxLines = 2
    MaxMfaAttempts = 2
INVARIANTS NothingOutlivesTheFlow TerminalGivenBack
PROPERTY FlowEnds
