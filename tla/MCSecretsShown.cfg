SPECIFICATION Spec
CONSTANTS
    n1 = n1
    Name = {n1, n2}
    Request = {r1}
    Operator = {d1}
    Asked <- AskFirst
    MaxId = 2
    MaxVersion = 2
    Null = null
INVARIANT ApprovedAsShown
CHECK_DEADLOCK FALSE
