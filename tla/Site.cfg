CONSTANTS
    Names = {"server", "upstream", "location", "root", "methods", "error_page", "proxy_pass",
             "rate_limit",
             "listen", "server_name", "client_max_body_size", "index", "autoindex",
             "health_check_interval"}
    MaxStatements = 4
    MaxWords = 3
    Args <- ArgsValue
    stoi <- stoiValue
    colon <- colonValue
    suffix <- suffixValue
    Decoded <- DecodedValue
    Lower <- LowerValue
    stoul <- stoulValue
    Raws <- RawsValue
    chars <- charsValue
    no_scheme <- no_schemeValue
    Dotted = {"127.0.0.1"}
    None = None

SPECIFICATION Spec
INVARIANTS MeansWhatItSays RoutedByLongestPrefix PiecesDoNotMatter FramedExactly
CHECK_DEADLOCK FALSE
