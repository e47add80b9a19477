SPECIFICATION Spec
CONSTANTS
    Torrents <- MCTorrents
    Scraps <- MCScraps
    MAX_FILE = 250
    Leftovers <- MCLeftovers
    Digest <- MCDigest
INVARIANTS DecodesWhatIsWritten HashesInfo DigestIsStandard CutIsNotLoaded
PROPERTIES SingleFilesLoad
CHECK_DEADLOCK FALSE
