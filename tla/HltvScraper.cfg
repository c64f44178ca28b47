\* Three matches, so that one may lie in a gap; one download at a time, of three fragments;
\* the scraper remembers one match; the upload and then the local store may fail.
SPECIFICATION Spec
CONSTANTS
    Matches = {1, 2, 3}
    MaxSpectating = 0
    MaxTries = 1
    Tasks = {t}
    Last = 3
    MaxNotFound = 1
    LruSize = 1
    MaxFaults = 2
    MaxRestarts = 1
INVARIANTS
    DeliveredInOrder
PROPERTIES
    DownloadsEndWell
