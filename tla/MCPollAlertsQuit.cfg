CONSTANTS
    Sources <- MCSources
    Installations <- MCInstallations
    Observers <- MCObservers
    Cooldown = 1
    Window = 2
    CleanQuit = FALSE
SPECIFICATION Spec
PROPERTIES MailsSpaced
