SPECIFICATION FairSpec
CONSTANTS
    Intf = {pen, buttons}
    Handle = {evdev, mousedev}
INVARIANTS InFlightLive NoUseAfterFree NoLeak PollOnlyWhileOpen OpenFindsIdle QuietAfterKill
PROPERTIES DetachCompletes CallbacksReturn ImplementsPort
