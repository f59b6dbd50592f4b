SPECIFICATION UploadReplaySpec
CONSTANTS
    Directories = {d1, d2}
    Absent = Absent
INVARIANT ReplayUsesSameMetadata
CHECK_DEADLOCK FALSE
