CONSTANTS
    n1 = n1
    n2 = n2
    a1 = a1
    Names <- MCNames
    Attrs = {a1}
    DefaultAttr = a1
    Absent = Absent
    MaxBatch = 3
    MaxReconnects = 3
    Desired <- MCDesired
    MaxReadFailures = 2
SPECIFICATION RSpec
PROPERTIES
    EventuallyConverges
