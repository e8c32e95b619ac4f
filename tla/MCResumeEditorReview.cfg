CONSTANTS
    MaxWrites = 1
    MaxMishaps = 0
SPECIFICATION ResumeSpec
CHECK_DEADLOCK FALSE
PROPERTY NeitherOverwrites
