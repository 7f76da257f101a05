SPECIFICATION NotifySpec
CONSTANTS
    Wakers = {v1}
    None = none
PROPERTY PulseReceived
