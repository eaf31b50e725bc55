CONSTANTS
    Sources <- MCSources
    Installations <- MCInstallations
    Observers <- MCObservers
    Cooldown = 1
    Window = 2
    CleanQuit = TRUE
SPECIFICATION FairSpec
INVARIANTS ActiveAgrees ObserversAgree
PROPERTIES MailsSpaced SilenceIsReported
